---- MODULE Spec2Model ----
(***************************************************************************)
(* Watchlist import/export normalisation pipeline of InfocusApp-v2:        *)
(* field normalisers (packages/shared/src/utils/importExport.ts), the zod  *)
(* schema layer (packages/shared/src/schemas/importExport.js), the preview *)
(* builder and the bulk import committer.                                  *)
(*                                                                         *)
(* JavaScript strings are TLA+ strings; they are taken apart with          *)
(* Len/SubSeq and put together with \o.  JavaScript values of several      *)
(* types are records tagged by the field t.                                *)
(***************************************************************************)
EXTENDS Integers, Sequences, FiniteSets, TLC

VARIABLES
    fn,     \* the normaliser / validator being called, "none" between calls
    call,   \* the arguments and the result of that call: [arg, ..., res]
    phase,  \* bulk import: "idle", "running" (items being committed), "done"
    req,    \* the BulkImportRequest being committed
    idx,    \* position (1-based) of the next item of req.items
    result, \* the ImportResult built so far
    store,  \* the user's stored watchlist entries, by entry id
    kinds,  \* the outcome ("skipped", "imported", "failed") of each item committed so far
    first,  \* once the request is committed again: the outcomes and the store of its first run
    pv      \* the batch being previewed: its rows, the lookups in flight, the previews so far

vars == <<fn, call, phase, req, idx, result, store, kinds, first, pv>>
commitVars == <<phase, req, idx, result, store, kinds, first>>

(***************************************************************************)
(* Bounds of the model                                                     *)
(***************************************************************************)
MaxProvLen == 3        \* every provider string of up to MaxProvLen characters is tried
MaxItems == 2          \* items of one BulkImportRequest
MaxYearGap == 2         \* candidate and original years span MaxYearGap + 1 consecutive years
MaxRatingQ == 44       \* ratings k/4 with |k| <= MaxRatingQ and the doubles next to them
MaxRows == 2           \* rows of one previewed batch

(***************************************************************************)
(* JavaScript values                                                       *)
(***************************************************************************)
JsNull      == [t |-> "null"]
JsUndefined == [t |-> "undefined"]
JsNaN       == [t |-> "nan"]
JsStr(s)    == [t |-> "str", s |-> s]
JsList(l)   == [t |-> "list", l |-> l]
\* a finite number: the double ulp units in the last place away from q/4
JsNumNear(q, ulp) == [t |-> "num", q |-> q, ulp |-> ulp]
JsNum(q)    == JsNumNear(q, 0)

\* optional results: <<>> is null, <<v>> is the value v
Null    == <<>>
Some(v) == <<v>>

(***************************************************************************)
(* String primitives: String.prototype.trim / toLowerCase / includes       *)
(***************************************************************************)
\* s[i], or "" outside the string (charAt)
Ch(s, i) == IF i \in 1..Len(s) THEN SubSeq(s, i, i) ELSE ""

UpperLetters == "ABCDEFGHIJKLMNOPQRSTUVWXYZ"
LowerLetters == "abcdefghijklmnopqrstuvwxyz"

IsWs(c) == c \in {" ", "\t", "\n"}

LowerChar(c) ==
    IF \E i \in 1..26 : Ch(UpperLetters, i) = c
    THEN Ch(LowerLetters, CHOOSE i \in 1..26 : Ch(UpperLetters, i) = c)
    ELSE c

UpperChar(c) ==
    IF \E i \in 1..26 : Ch(LowerLetters, i) = c
    THEN Ch(UpperLetters, CHOOSE i \in 1..26 : Ch(LowerLetters, i) = c)
    ELSE c

RECURSIVE toLowerCase(_)
toLowerCase(s) ==
    IF s = "" THEN ""
    ELSE LowerChar(Ch(s, 1)) \o toLowerCase(SubSeq(s, 2, Len(s)))

RECURSIVE toUpperCase(_)
toUpperCase(s) ==
    IF s = "" THEN ""
    ELSE UpperChar(Ch(s, 1)) \o toUpperCase(SubSeq(s, 2, Len(s)))

RECURSIVE trimStart(_)
trimStart(s) ==
    IF s # "" /\ IsWs(Ch(s, 1)) THEN trimStart(SubSeq(s, 2, Len(s))) ELSE s

RECURSIVE trimEnd(_)
trimEnd(s) ==
    IF s # "" /\ IsWs(Ch(s, Len(s))) THEN trimEnd(SubSeq(s, 1, Len(s) - 1)) ELSE s

trim(s) == trimEnd(trimStart(s))

includes(s, c) == \E i \in 1..Len(s) : Ch(s, i) = c

\* !x for the values a normaliser receives: null, undefined, "", NaN and 0 are falsy
Falsy(x) ==
    \/ x.t \in {"null", "undefined", "nan"}
    \/ x.t = "str" /\ x.s = ""
    \/ x.t = "num" /\ x.q = 0

(***************************************************************************)
(* normalizeWatchStatus                                                    *)
(***************************************************************************)
completedVariations ==
    {"completed", "watched", "done", "finished", "complete", "saw", "seen"}

watchingVariations ==
    {"watching", "in progress", "in-progress", "started", "currently watching", "ongoing"}

notWatchedVariations ==
    {"not watched", "not_watched", "unwatched", "to watch", "plan to watch",
     "want to watch", "planned", "ptw", "backlog"}

WatchStatus == {"not_watched", "watching", "completed"}

\* a plausible slip: the input is lower-cased but not trimmed
normalizeWatchStatus_noTrim(status) ==
    IF Falsy(status) THEN "not_watched"
    ELSE LET normalized == toLowerCase(status.s) IN
         IF normalized \in completedVariations THEN "completed"
         ELSE IF normalized \in watchingVariations THEN "watching"
         ELSE IF normalized \in notWatchedVariations THEN "not_watched"
         ELSE "not_watched"

normalizeWatchStatus(status) ==
    IF Falsy(status) THEN "not_watched"
    ELSE LET normalized == trim(toLowerCase(status.s)) IN
         IF normalized \in completedVariations THEN "completed"
         ELSE IF normalized \in watchingVariations THEN "watching"
         ELSE IF normalized \in notWatchedVariations THEN "not_watched"
         ELSE "not_watched"

\* the spellings a status arrives in: as listed, capitalised, upper case, padded
Spellings(s) ==
    {s, toUpperCase(s), UpperChar(Ch(s, 1)) \o SubSeq(s, 2, Len(s)),
     "  " \o s, s \o " ", "\t" \o toUpperCase(s) \o " \n"}

UnknownStatuses ==
    {"xyz", "unknown", "watch", "completed!", "in  progress", "not-watched",
     "dropped", " ", "on hold"}

StatusInputs ==
    {JsNull, JsUndefined, JsStr("")}
    \cup { JsStr(v) : v \in UNION { Spellings(s) :
             s \in completedVariations \cup watchingVariations
                   \cup notWatchedVariations \cup UnknownStatuses } }

(***************************************************************************)
(* The JavaScript number type: IEEE 754 binary64                           *)
(*   a natural number is its sequence of limbs, most significant first,    *)
(*   without leading zeros; a finite double is (-1)^neg * m * 2^e with     *)
(*   m = 0 or 2^52 <= m < 2^53.  Subnormals, infinities and magnitudes of  *)
(*   2^30 and more are outside the ratings the model tries.                *)
(***************************************************************************)
LimbBits == 15
Limb == 2 ^ LimbBits
MantBits == 53
GuardBits == 8

Front(x) == SubSeq(x, 1, Len(x) - 1)

RECURSIVE BigTrim(_)
BigTrim(x) == IF x # <<>> /\ x[1] = 0 THEN BigTrim(Tail(x)) ELSE x

BigOfInt(n) == BigTrim(<<n \div Limb, n % Limb>>)

RECURSIVE BigToInt(_)
BigToInt(x) == IF x = <<>> THEN 0 ELSE BigToInt(Front(x)) * Limb + x[Len(x)]

\* x * c + a
RECURSIVE BigMulAdd(_, _, _)
BigMulAdd(x, c, a) ==
    IF x = <<>> THEN BigOfInt(a)
    ELSE Append(BigMulAdd(Front(x), c, (x[Len(x)] * c + a) \div Limb),
                (x[Len(x)] * c + a) % Limb)

\* floor(x / c) and x mod c, from the most significant limb on
RECURSIVE BigDivRem(_, _, _, _, _)
BigDivRem(x, c, i, r, acc) ==
    IF i > Len(x) THEN [q |-> BigTrim(acc), r |-> r]
    ELSE BigDivRem(x, c, i + 1, (r * Limb + x[i]) % c,
                   Append(acc, (r * Limb + x[i]) \div c))

BigDiv(x, c) == BigDivRem(x, c, 1, 0, <<>>).q
BigMod(x, c) == BigDivRem(x, c, 1, 0, <<>>).r

\* floor(x / 2^t)
RECURSIVE BigShr(_, _)
BigShr(x, t) ==
    IF x = <<>> \/ t = 0 THEN x
    ELSE IF t >= LimbBits THEN BigShr(Front(x), t - LimbBits)
    ELSE BigDiv(x, 2 ^ t)

\* x * 2^t
RECURSIVE BigShl(_, _)
BigShl(x, t) ==
    IF x = <<>> \/ t = 0 THEN x
    ELSE IF t >= LimbBits THEN BigShl(Append(x, 0), t - LimbBits)
    ELSE BigMulAdd(x, 2 ^ t, 0)

\* x - 1, for x > 0
RECURSIVE BigPred(_)
BigPred(x) ==
    IF x[Len(x)] > 0 THEN BigTrim([x EXCEPT ![Len(x)] = @ - 1])
    ELSE Append(BigPred(Front(x)), Limb - 1)

RECURSIVE IntBitLen(_)
IntBitLen(n) == IF n = 0 THEN 0 ELSE 1 + IntBitLen(n \div 2)

BigBitLen(x) == IF x = <<>> THEN 0 ELSE LimbBits * (Len(x) - 1) + IntBitLen(x[1])

BigOdd(x) == x # <<>> /\ x[Len(x)] % 2 = 1

Double(neg, m, e) == [neg |-> neg, m |-> m, e |-> e]

\* a significand that rounding or stepping took to 2^53
Carried(neg, m, e) ==
    IF BigBitLen(m) > MantBits THEN Double(neg, BigShr(m, 1), e + 1) ELSE Double(neg, m, e)

\* round to nearest, ties to even; q2 is the significand and the bit after it
RoundEven(neg, n, q2, t, e, sticky) ==
    IF BigOdd(q2) /\ (sticky \/ BigShl(q2, t - 1) # n \/ BigOdd(BigShr(q2, 1)))
    THEN Carried(neg, BigMulAdd(BigShr(q2, 1), 1, 1), e + t)
    ELSE Double(neg, BigShr(q2, 1), e + t)

RoundShift(neg, n, t, e, sticky) ==
    IF t <= 0 THEN Double(neg, BigShl(n, 0 - t), e + t)
    ELSE RoundEven(neg, n, BigShr(n, t - 1), t, e, sticky)

\* the double nearest to n * 2^e; sticky: the exact value lies strictly
\* between n * 2^e and (n + 1) * 2^e (n then has more than MantBits bits)
RoundToDouble(neg, n, e, sticky) ==
    IF n = <<>> THEN Double(neg, <<>>, 0)
    ELSE RoundShift(neg, n, BigBitLen(n) - MantBits, e, sticky)

\* x / c and x * c for a small whole number c, correctly rounded
DoubleDivInt(x, c) ==
    RoundToDouble(x.neg, BigDiv(BigShl(x.m, GuardBits), c), x.e - GuardBits,
                  BigMod(BigShl(x.m, GuardBits), c) # 0)

DoubleMulInt(x, c) == RoundToDouble(x.neg, BigMulAdd(x.m, c, 0), x.e, FALSE)

\* the neighbouring double, one unit in the last place up or down in magnitude
DoubleStep(x, ulp) ==
    IF ulp = 0 \/ x.m = <<>> THEN x
    ELSE IF ulp > 0 THEN Carried(x.neg, BigMulAdd(x.m, 1, 1), x.e)
    ELSE IF BigBitLen(BigPred(x.m)) < MantBits
         THEN Double(x.neg, BigPred(BigShl(x.m, 1)), x.e - 1)
         ELSE Double(x.neg, BigPred(x.m), x.e)

DoubleOfQuarters(q) ==
    RoundToDouble(q < 0, BigOfInt(IF q < 0 THEN 0 - q ELSE q), 0 - 2, FALSE)

toDouble(rating) == DoubleStep(DoubleOfQuarters(rating.q), rating.ulp)

\* |x| = IntPart + fraction; HalfBit: fraction >= 1/2; BelowHalfBit: the
\* fraction is neither 0 nor 1/2
IntPart(x) == BigToInt(BigShr(x.m, 0 - x.e))
HalfBit(x) == BigOdd(BigShr(x.m, 0 - x.e - 1))
BelowHalfBit(x) == BigShl(BigShr(x.m, 0 - x.e - 1), 0 - x.e - 1) # x.m

(***************************************************************************)
(* Sums, products and comparisons of doubles that are not negative         *)
(***************************************************************************)
RECURSIVE BigAddCarry(_, _, _)
BigAddCarry(x, y, c) ==
    IF x = <<>> THEN BigMulAdd(y, 1, c)
    ELSE IF y = <<>> THEN BigMulAdd(x, 1, c)
    ELSE Append(BigAddCarry(Front(x), Front(y), (x[Len(x)] + y[Len(y)] + c) \div Limb),
                (x[Len(x)] + y[Len(y)] + c) % Limb)

BigAdd(x, y) == BigTrim(BigAddCarry(x, y, 0))

RECURSIVE BigMulAcc(_, _, _, _)
BigMulAcc(x, y, i, acc) ==
    IF i > Len(y) THEN acc
    ELSE BigMulAcc(x, y, i + 1, BigAdd(BigShl(acc, LimbBits), BigMulAdd(x, y[i], 0)))

BigMul(x, y) == BigMulAcc(x, y, 1, <<>>)

RECURSIVE BigLessFrom(_, _, _)
BigLessFrom(x, y, i) ==
    IF i > Len(x) THEN FALSE
    ELSE IF x[i] # y[i] THEN x[i] < y[i]
    ELSE BigLessFrom(x, y, i + 1)

BigLess(x, y) == IF Len(x) # Len(y) THEN Len(x) < Len(y) ELSE BigLessFrom(x, y, 1)

DoubleLess(x, y) ==
    IF y.m = <<>> THEN FALSE
    ELSE IF x.m = <<>> THEN TRUE
    ELSE IF x.e # y.e THEN x.e < y.e
    ELSE BigLess(x.m, y.m)

DoubleAddAligned(hi, lo) ==
    RoundToDouble(FALSE, BigAdd(BigShl(hi.m, hi.e - lo.e), lo.m), lo.e, FALSE)

DoubleAdd(x, y) ==
    IF x.m = <<>> THEN y
    ELSE IF y.m = <<>> THEN x
    ELSE IF x.e >= y.e THEN DoubleAddAligned(x, y)
    ELSE DoubleAddAligned(y, x)

DoubleMul(x, y) == RoundToDouble(FALSE, BigMul(x.m, y.m), x.e + y.e, FALSE)

DoubleOfInt(n) == RoundToDouble(FALSE, BigOfInt(n), 0, FALSE)

\* the double nearest to a / b: a decimal literal, or the quotient of two whole numbers
DoubleRatio(a, b) == DoubleDivInt(DoubleOfInt(a), b)

(***************************************************************************)
(* normalizeRating                                                         *)
(***************************************************************************)
Scales == {5, 10, 100}

\* Math.round: floor(x + 1/2), ties towards +infinity
MathRound(x) ==
    IF x.m = <<>> THEN 0
    ELSE IF x.neg THEN 0 - (IntPart(x) + IF HalfBit(x) /\ BelowHalfBit(x) THEN 1 ELSE 0)
    ELSE IntPart(x) + IF HalfBit(x) THEN 1 ELSE 0

Max(a, b) == IF a > b THEN a ELSE b
Min(a, b) == IF a < b THEN a ELSE b

rescale(x, scale) ==
    CASE scale = 5   -> DoubleMulInt(DoubleDivInt(x, 5), 10)    \* (rating / 5) * 10
      [] scale = 100 -> DoubleDivInt(x, 10)                     \* rating / 10
      [] OTHER       -> x

normalizeRating(rating, scale) ==
    IF rating.t \in {"null", "undefined", "nan"} THEN Null
    ELSE Some(Max(0, Min(10, MathRound(rescale(toDouble(rating), scale)))))

\* every quarter up to the bound with the doubles next to it, and the
\* percent scale points
RatingInputs ==
    {JsNull, JsUndefined, JsNaN}
    \cup ({ JsNumNear(q, ulp) : q \in (-MaxRatingQ)..MaxRatingQ, ulp \in {-1, 0, 1} }
          \ {JsNumNear(0, -1), JsNumNear(0, 1)})
    \cup { JsNum(4 * p) : p \in {-5, 1, 15, 45, 50, 84, 85, 94, 95, 99, 100, 150} }

(***************************************************************************)
(* parseStreamingProviders                                                 *)
(***************************************************************************)
startsWith(s, c) == Ch(s, 1) = c
endsWith(s, c)   == Ch(s, Len(s)) = c

IsDigit(c) == c \in {"0", "1", "2", "3", "4", "5", "6", "7", "8", "9"}

RECURSIVE skipDigits(_, _)
skipDigits(s, i) == IF IsDigit(Ch(s, i)) THEN skipDigits(s, i + 1) ELSE i

\* JSON.parse, for the texts a provider cell can hold: arrays (nested), strings
\* without escape sequences, numbers and the literals true / false / null.
\* An object or an escape sequence is outside the modelled inputs.
JsonWs == {" ", "\t", "\n", "\r"}

RECURSIVE skipJsonWs(_, _)
skipJsonWs(s, i) == IF Ch(s, i) \in JsonWs THEN skipJsonWs(s, i + 1) ELSE i

JsOther == [t |-> "other"]     \* a parsed value that is neither a string nor an array

JsonFail == [ok |-> FALSE]
JsonOk(v, next) == [ok |-> TRUE, val |-> v, next |-> next]

\* index of the closing quote of a string whose body starts at i, 0 if there is none
RECURSIVE JsonStringEnd(_, _)
JsonStringEnd(s, i) ==
    IF i > Len(s) THEN 0
    ELSE IF Ch(s, i) = "\"" THEN i
    ELSE IF Ch(s, i) \in {"\\", "\t", "\n", "\r"} THEN 0
    ELSE JsonStringEnd(s, i + 1)

\* index after the digits that must start at i, 0 if there is none
requireDigits(s, i) == IF skipDigits(s, i) = i THEN 0 ELSE skipDigits(s, i)

\* index after the integer part starting at a: 0, or a digit 1-9 and more digits
JsonIntEnd(s, a) ==
    IF ~IsDigit(Ch(s, a)) THEN 0
    ELSE IF Ch(s, a) = "0" THEN a + 1 ELSE skipDigits(s, a)

\* index after the optional fraction at b
JsonFractionEnd(s, b) ==
    IF b # 0 /\ Ch(s, b) = "." THEN requireDigits(s, b + 1) ELSE b

\* index after the optional exponent at c
JsonExponentEnd(s, c) ==
    IF c # 0 /\ Ch(s, c) \in {"e", "E"}
    THEN requireDigits(s, IF Ch(s, c + 1) \in {"+", "-"} THEN c + 2 ELSE c + 1)
    ELSE c

\* index after the number starting at i, 0 if it is malformed
JsonNumberEnd(s, i) ==
    JsonExponentEnd(s, JsonFractionEnd(s, JsonIntEnd(s, IF Ch(s, i) = "-" THEN i + 1 ELSE i)))

\* the string whose opening quote is at i and whose closing quote is at j
JsonStringValue(s, i, j) ==
    IF j = 0 THEN JsonFail ELSE JsonOk(JsStr(SubSeq(s, i + 1, j - 1)), j + 1)

\* the number starting at i and ending before j
JsonNumberValue(j) == IF j = 0 THEN JsonFail ELSE JsonOk(JsOther, j)

\* the literal word w at i
JsonLiteral(s, i, w) ==
    IF i + Len(w) - 1 <= Len(s) /\ SubSeq(s, i, i + Len(w) - 1) = w
    THEN JsonOk(JsOther, i + Len(w)) ELSE JsonFail

RECURSIVE JsonValue(_, _), JsonArray(_, _), JsonElements(_, _, _), JsonElementsAfter(_, _, _)
JsonValue(s, i) ==
    CASE Ch(s, i) = "\"" -> JsonStringValue(s, i, JsonStringEnd(s, i + 1))
      [] Ch(s, i) = "-" \/ IsDigit(Ch(s, i)) -> JsonNumberValue(JsonNumberEnd(s, i))
      [] Ch(s, i) = "t" -> JsonLiteral(s, i, "true")
      [] Ch(s, i) = "n" -> JsonLiteral(s, i, "null")
      [] Ch(s, i) = "f" -> JsonLiteral(s, i, "false")
      [] Ch(s, i) = "[" -> JsonArray(s, skipJsonWs(s, i + 1))
      [] OTHER -> JsonFail

\* the array whose first non-blank character after "[" is at j
JsonArray(s, j) ==
    IF Ch(s, j) = "]" THEN JsonOk(JsList(<<>>), j + 1) ELSE JsonElements(s, j, <<>>)

\* the elements of an array from position i on, acc holding the ones already read
JsonElements(s, i, acc) == JsonElementsAfter(s, JsonValue(s, i), acc)

\* the same, v being the element just read
JsonElementsAfter(s, v, acc) ==
    IF ~v.ok THEN JsonFail
    ELSE IF Ch(s, skipJsonWs(s, v.next)) = ","
    THEN JsonElements(s, skipJsonWs(s, skipJsonWs(s, v.next) + 1), Append(acc, v.val))
    ELSE IF Ch(s, skipJsonWs(s, v.next)) = "]"
    THEN JsonOk(JsList(Append(acc, v.val)), skipJsonWs(s, v.next) + 1)
    ELSE JsonFail

\* the whole text is one value between optional blanks
JsonWhole(s, v) == IF v.ok /\ skipJsonWs(s, v.next) = Len(s) + 1 THEN v ELSE JsonFail

JSONparse(s) == JsonWhole(s, JsonValue(s, skipJsonWs(s, 1)))

\* String.prototype.split on a one-character delimiter, or on a character class
RECURSIVE splitFrom(_, _, _, _)
splitFrom(s, D, i, cur) ==
    IF i > Len(s) THEN <<cur>>
    ELSE IF Ch(s, i) \in D THEN <<cur>> \o splitFrom(s, D, i + 1, "")
    ELSE splitFrom(s, D, i + 1, cur \o Ch(s, i))

split(s, d) == splitFrom(s, {d}, 1, "")
splitClass(s, D) == splitFrom(s, D, 1, "")

\* Array.prototype.join
RECURSIVE join(_, _)
join(l, d) ==
    IF l = <<>> THEN ""
    ELSE IF Len(l) = 1 THEN l[1]
    ELSE l[1] \o d \o join(Tail(l), d)

nonEmpty(p) == p # ""

\* a plausible slip: the array branch trims but does not lower-case
normalizeProviderArray_noLower(l) ==
    SelectSeq([i \in 1..Len(l) |-> IF l[i].t = "str" THEN trim(l[i].s) ELSE ""],
              nonEmpty)

\* providers.map(p => typeof p === 'string' ? p.toLowerCase().trim() : '').filter(...)
normalizeProviderArray(l) ==
    SelectSeq([i \in 1..Len(l) |-> IF l[i].t = "str" THEN trim(toLowerCase(l[i].s)) ELSE ""],
              nonEmpty)

\* trimmed.split(delimiter).map(p => p.toLowerCase().trim()).filter(...)
lowerTrimmed(parts) == [i \in 1..Len(parts) |-> trim(toLowerCase(parts[i]))]

splitProviders(trimmed, d) == SelectSeq(lowerTrimmed(split(trimmed, d)), nonEmpty)

\* a plausible slip: the semicolon is tried before the comma
providersFromString_semicolonFirst(trimmed, parsed) ==
    IF parsed.ok /\ parsed.val.t = "list"
    THEN normalizeProviderArray(parsed.val.l)
    ELSE IF includes(trimmed, ";") THEN splitProviders(trimmed, ";")
    ELSE IF includes(trimmed, ",") THEN splitProviders(trimmed, ",")
    ELSE IF includes(trimmed, "|") THEN splitProviders(trimmed, "|")
    ELSE IF trimmed # "" THEN <<toLowerCase(trimmed)>> ELSE <<>>

\* the string branch once JSON.parse has been tried on the trimmed text
providersFromString(trimmed, parsed) ==
    IF parsed.ok /\ parsed.val.t = "list"
    THEN normalizeProviderArray(parsed.val.l)
    ELSE IF includes(trimmed, ",") THEN splitProviders(trimmed, ",")
    ELSE IF includes(trimmed, ";") THEN splitProviders(trimmed, ";")
    ELSE IF includes(trimmed, "|") THEN splitProviders(trimmed, "|")
    ELSE IF trimmed # "" THEN <<toLowerCase(trimmed)>> ELSE <<>>

\* JSON.parse is tried only on text that starts with "[" and ends with "]"
tryJsonArray(trimmed) ==
    IF startsWith(trimmed, "[") /\ endsWith(trimmed, "]")
    THEN JSONparse(trimmed) ELSE JsonFail

parseStreamingProviders(providers) ==
    IF Falsy(providers) THEN <<>>
    ELSE IF providers.t = "list" THEN normalizeProviderArray(providers.l)
    ELSE IF providers.t = "str"
    THEN providersFromString(trim(providers.s), tryJsonArray(trim(providers.s)))
    ELSE <<>>

\* provider cells: every string of up to MaxProvLen characters over an alphabet
\* with a letter of each case, a digit, the delimiters, the brackets, a quote and
\* a blank; the documented examples; lists of up to two elements
ProvAlphabet == {"a", "B", "1", ",", ";", "|", "[", "]", "\"", " "}

RECURSIVE StringsUpTo(_)
StringsUpTo(n) ==
    IF n = 0 THEN {""}
    ELSE LET shorter == StringsUpTo(n - 1)
         IN  shorter \cup { s \o c : s \in shorter, c \in ProvAlphabet }

ProviderExamples ==
    {"Netflix, Hulu", "Netflix,Hulu,Prime", "Netflix; Hulu; Prime",
     "Netflix | Hulu | Prime", "[\"Netflix\", \"Hulu\"]", "[\"NETFLIX\",\"HULU\",\"Prime\"]",
     "Netflix", "HULU", "Netflix, , Hulu", "  Netflix  , Hulu  ", "[Netflix, Hulu]",
     "a;b,c", "a|b;c", "[\"a,b\"]", "[\"a;b\"]", "[1;2]", "[\"a\", 1, [\"b\"], null]",
     "[ ]", "[\"a\" \"b\"]", "[\"a\",]", "[-1.5e+2, true, false]", "[01]"}

ProviderElements ==
    {JsStr("Netflix"), JsStr("  Hulu  "), JsStr(""), JsStr("a,b"), JsStr("a;b"),
     JsStr("[1]"), JsStr("[\"x\"]"), JsOther}

ProviderInputs ==
    {JsNull, JsUndefined}
    \cup { JsStr(s) : s \in StringsUpTo(MaxProvLen) \cup ProviderExamples }
    \cup { JsList(<<>>) }
    \cup { JsList(<<a>>) : a \in ProviderElements }
    \cup { JsList(<<a, b>>) : a \in ProviderElements, b \in ProviderElements }

(***************************************************************************)
(* Dates.  A Date is invalid or an instant: whole minutes since the epoch  *)
(* (UTC) and the milliseconds within that minute.  The host's local time   *)
(* is UTC + tz minutes.                                                    *)
(***************************************************************************)
InvalidDate == [valid |-> FALSE]
DateAt(min, ms) == [valid |-> TRUE, min |-> min, ms |-> ms]

JsDate(d) == [t |-> "date", d |-> d]

IsLeap(y) == (y % 4 = 0 /\ y % 100 # 0) \/ y % 400 = 0

DaysInMonth(y, m) ==
    IF m = 2 THEN (IF IsLeap(y) THEN 29 ELSE 28)
    ELSE IF m \in {4, 6, 9, 11} THEN 30 ELSE 31

\* day number (days since 1970-01-01) of a proleptic Gregorian date, m in 1..12
daysFromCivil(y, m, d) ==
    LET yy  == IF m <= 2 THEN y - 1 ELSE y
        era == yy \div 400
        yoe == yy - era * 400
        mp  == (m + 9) % 12
        doy == (153 * mp + 2) \div 5 + d - 1
        doe == yoe * 365 + yoe \div 4 - yoe \div 100 + doy
    IN  era * 146097 + doe - 719468

\* the Gregorian date of a day number
civilFromDays(z) ==
    LET z2  == z + 719468
        era == z2 \div 146097
        doe == z2 - era * 146097
        yoe == (doe - doe \div 1460 + doe \div 36524 - doe \div 146096) \div 365
        doy == doe - (365 * yoe + yoe \div 4 - yoe \div 100)
        mp  == (5 * doy + 2) \div 153
        d   == doy - (153 * mp + 2) \div 5 + 1
        m   == IF mp < 10 THEN mp + 3 ELSE mp - 9
        y   == yoe + era * 400
    IN  [y |-> IF m <= 2 THEN y + 1 ELSE y, m |-> m, d |-> d]

\* new Date(year, monthIndex, day): local midnight; month and day overflow into
\* the neighbouring months and years; a year 0..99 means 1900 + year
NewLocalDate(year, monthIndex, day, tz) ==
    LET yr   == IF year \in 0..99 THEN 1900 + year ELSE year
        ym   == yr + monthIndex \div 12
        mn   == monthIndex % 12
        days == daysFromCivil(ym, mn + 1, 1) + day - 1
    IN  DateAt(days * 1440 - tz, 0)

Digits == "0123456789"
DigitVal(c) == (CHOOSE k \in 1..10 : Ch(Digits, k) = c) - 1

AllDigits(s) == \A i \in 1..Len(s) : IsDigit(Ch(s, i))

\* Number(s) for a string of digits
RECURSIVE ToNumber(_)
ToNumber(s) ==
    IF s = "" THEN 0
    ELSE 10 * ToNumber(SubSeq(s, 1, Len(s) - 1)) + DigitVal(Ch(s, Len(s)))

\* String(n) for n >= 0
RECURSIVE NumToString(_)
NumToString(n) ==
    IF n < 10 THEN Ch(Digits, n + 1)
    ELSE NumToString(n \div 10) \o Ch(Digits, (n % 10) + 1)

\* String(n).padStart(w, "0")
RECURSIVE Pad(_, _)
Pad(n, w) == LET str == NumToString(n) IN
    IF Len(str) >= w THEN str ELSE "0" \o Pad(n, w - 1) 

\* digits with a length in lo..hi
DigitRun(s, lo, hi) == Len(s) \in lo..hi /\ AllDigits(s)

\* /^\d{4}-\d{2}-\d{2}/ : a prefix test
IsoDatePrefix(s) ==
    /\ Len(s) >= 10
    /\ AllDigits(SubSeq(s, 1, 4)) /\ Ch(s, 5) = "-"
    /\ AllDigits(SubSeq(s, 6, 7)) /\ Ch(s, 8) = "-"
    /\ AllDigits(SubSeq(s, 9, 10))

\* /^\d{1,2}\/\d{1,2}\/\d{4}$/
UsDateShape(s) ==
    LET parts == split(s, "/") IN
    /\ Len(parts) = 3
    /\ DigitRun(parts[1], 1, 2) /\ DigitRun(parts[2], 1, 2) /\ DigitRun(parts[3], 4, 4)

\* /^\d{1,2}[./]\d{1,2}[./]\d{4}$/
EuDateShape(s) ==
    LET parts == splitClass(s, {".", "/"}) IN
    /\ Len(parts) = 3
    /\ DigitRun(parts[1], 1, 2) /\ DigitRun(parts[2], 1, 2) /\ DigitRun(parts[3], 4, 4)

\* HH:MM:SS with an optional .fraction: [ok, min, ms]
TimeOfDay(s) ==
    IF /\ Len(s) >= 8
       /\ AllDigits(SubSeq(s, 1, 2)) /\ Ch(s, 3) = ":"
       /\ AllDigits(SubSeq(s, 4, 5)) /\ Ch(s, 6) = ":"
       /\ AllDigits(SubSeq(s, 7, 8))
       /\ (Len(s) = 8 \/ (Ch(s, 9) = "." /\ DigitRun(SubSeq(s, 10, Len(s)), 1, 3)))
       /\ ToNumber(SubSeq(s, 1, 2)) <= 23
       /\ ToNumber(SubSeq(s, 4, 5)) <= 59
       /\ ToNumber(SubSeq(s, 7, 8)) <= 59
    THEN LET frac == IF Len(s) = 8 THEN "" ELSE SubSeq(s, 10, Len(s))
             msec == CASE Len(frac) = 0 -> 0
                       [] Len(frac) = 1 -> 100 * ToNumber(frac)
                       [] Len(frac) = 2 -> 10 * ToNumber(frac)
                       [] OTHER         -> ToNumber(frac)
         IN  [ok |-> TRUE,
              min |-> 60 * ToNumber(SubSeq(s, 1, 2)) + ToNumber(SubSeq(s, 4, 5)),
              ms  |-> 1000 * ToNumber(SubSeq(s, 7, 8)) + msec]
    ELSE [ok |-> FALSE]

\* Z or +HH:MM / -HH:MM: [ok, min] (minutes east of UTC)
ZoneDesignator(s) ==
    IF s = "Z" THEN [ok |-> TRUE, min |-> 0]
    ELSE IF /\ Len(s) = 6 /\ Ch(s, 1) \in {"+", "-"}
            /\ AllDigits(SubSeq(s, 2, 3)) /\ Ch(s, 4) = ":" /\ AllDigits(SubSeq(s, 5, 6))
            /\ ToNumber(SubSeq(s, 2, 3)) <= 23 /\ ToNumber(SubSeq(s, 5, 6)) <= 59
    THEN LET m == 60 * ToNumber(SubSeq(s, 2, 3)) + ToNumber(SubSeq(s, 5, 6))
         IN  [ok |-> TRUE, min |-> IF Ch(s, 1) = "-" THEN 0 - m ELSE m]
    ELSE [ok |-> FALSE]

\* the position where the zone designator of a date-time tail starts (0: none)
ZoneStart(s) ==
    IF \E i \in 1..Len(s) : Ch(s, i) \in {"Z", "+", "-"}
    THEN CHOOSE i \in 1..Len(s) :
            /\ Ch(s, i) \in {"Z", "+", "-"}
            /\ \A j \in 1..(i - 1) : Ch(s, j) \notin {"Z", "+", "-"}
    ELSE 0

\* new Date(string) / Date.parse for the ECMAScript date-time string format
\* YYYY-MM-DD[THH:MM:SS[.sss][Z|+HH:MM|-HH:MM]]: a date-only form is UTC, a
\* date-time without designator is local time.  A day that is in 1..31 but not
\* in the month is rejected by some engines and rolled over into the next month
\* by others: lenient chooses.  Any other text is not a date (the texts that
\* engine-specific legacy parsers accept are outside the modelled inputs).
DateParse(s, tz, lenient) ==
    IF ~IsoDatePrefix(s) THEN InvalidDate
    ELSE LET y    == ToNumber(SubSeq(s, 1, 4))
             m    == ToNumber(SubSeq(s, 6, 7))
             d    == ToNumber(SubSeq(s, 9, 10))
             rest == SubSeq(s, 11, Len(s))
             dayOk == /\ m \in 1..12
                      /\ d >= 1
                      /\ d <= (IF lenient THEN 31 ELSE DaysInMonth(y, m))
             days == daysFromCivil(y, m, 1) + d - 1
         IN  IF ~dayOk THEN InvalidDate
             ELSE IF rest = "" THEN DateAt(days * 1440, 0)
             ELSE IF Ch(rest, 1) # "T" THEN InvalidDate
             ELSE LET tail == SubSeq(rest, 2, Len(rest))
                      zs   == ZoneStart(tail)
                      time == TimeOfDay(IF zs = 0 THEN tail ELSE SubSeq(tail, 1, zs - 1))
                      zone == IF zs = 0 THEN [ok |-> TRUE, min |-> tz]
                              ELSE ZoneDesignator(SubSeq(tail, zs, Len(tail)))
                  IN  IF time.ok /\ zone.ok
                      THEN DateAt(days * 1440 + time.min - zone.min, time.ms)
                      ELSE InvalidDate

\* new Date(number): milliseconds since the epoch, fraction dropped (number is q/4)
NewDateFromNumber(q) ==
    LET msec == IF q >= 0 THEN q \div 4 ELSE 0 - ((0 - q) \div 4)
    IN  DateAt(msec \div 60000, msec % 60000)

\* Date.prototype.toISOString (years 0..9999)
toISOString(date) ==
    LET c   == civilFromDays(date.min \div 1440)
        rem == date.min % 1440
    IN  Pad(c.y, 4) \o "-" \o Pad(c.m, 2) \o "-" \o Pad(c.d, 2) \o "T"
        \o Pad(rem \div 60, 2) \o ":" \o Pad(rem % 60, 2) \o ":"
        \o Pad(date.ms \div 1000, 2) \o "." \o Pad(date.ms % 1000, 3) \o "Z"

(***************************************************************************)
(* normalizeDateString                                                     *)
(***************************************************************************)
\* the MM/DD/YYYY branch: const [month, day, year] = trimmed.split('/').map(Number)
UsDate(trimmed, tz) ==
    LET parts == split(trimmed, "/")
        month == ToNumber(parts[1])
        day   == ToNumber(parts[2])
        year  == ToNumber(parts[3])
    IN  NewLocalDate(year, month - 1, day, tz)

\* the DD.MM.YYYY branch: const [day, month, year] = trimmed.split(/[./]/).map(Number)
EuDate(trimmed, tz) ==
    LET parts == splitClass(trimmed, {".", "/"})
        day   == ToNumber(parts[1])
        month == ToNumber(parts[2])
        year  == ToNumber(parts[3])
    IN  NewLocalDate(year, month - 1, day, tz)

normalizeDateString(dateStr, tz, lenient) ==
    IF Falsy(dateStr) THEN Null
    ELSE LET date ==
                 IF dateStr.t = "date" THEN dateStr.d
                 ELSE IF dateStr.t = "num" THEN NewDateFromNumber(dateStr.q)
                 ELSE LET trimmed == trim(dateStr.s) IN
                      IF IsoDatePrefix(trimmed) THEN DateParse(trimmed, tz, lenient)
                      ELSE IF UsDateShape(trimmed) THEN UsDate(trimmed, tz)
                      ELSE IF EuDateShape(trimmed) THEN EuDate(trimmed, tz)
                      ELSE DateParse(trimmed, tz, lenient)
         IN  IF ~date.valid THEN Null ELSE Some(toISOString(date))

\* hosts: fixed offsets west of, at and east of UTC, in minutes
HostOffsets == {-300, 0, 60}

\* day and month numbers written into the date strings
DateParts == {1, 2, 5, 12, 13, 15, 29, 30, 31, 45}
DateYears == {2023, 2024}

DateStringsOf(a, b, y) ==
    {NumToString(a) \o "/" \o NumToString(b) \o "/" \o Pad(y, 4),
     Pad(a, 2) \o "/" \o Pad(b, 2) \o "/" \o Pad(y, 4),
     NumToString(a) \o "." \o NumToString(b) \o "." \o Pad(y, 4),
     Pad(a, 2) \o "." \o Pad(b, 2) \o "." \o Pad(y, 4),
     Pad(a, 2) \o "." \o Pad(b, 2) \o "/" \o Pad(y, 4),
     Pad(a, 2) \o "/" \o Pad(b, 2) \o "." \o Pad(y, 4),
     Pad(y, 4) \o "-" \o Pad(a, 2) \o "-" \o Pad(b, 2)}

DateTimeStrings ==
    {"2024-01-15T00:00:00.000Z", "2024-01-01T00:00:00.000Z", "2024-01-15T10:30:45.123Z",
     "2024-01-15T23:30:00+02:00", "2024-01-15T00:30:00-05:00", "2024-01-15T10:30:00",
     "2023-02-29T00:00:00Z", "2024-01-15T25:00:00Z", "2024-13-01T00:00:00Z"}

GarbageDates == {"invalid", "not-a-date", "garbage text", "   "}

DateStrings ==
    UNION { DateStringsOf(a, b, y) : a \in DateParts, b \in DateParts, y \in DateYears }
    \cup DateTimeStrings \cup GarbageDates
    \cup {"  01/15/2024 ", "\t15.01.2024"}

DateInputs ==
    {JsNull, JsUndefined, JsNaN, JsStr(""), JsNum(0), JsNum(4 * 86400000),
     JsDate(InvalidDate), JsDate(DateAt(28421280, 0))}
    \cup { JsStr(s) : s \in DateStrings }

(***************************************************************************)
(* calculateMatchConfidence                                                *)
(***************************************************************************)
\* the literals 0.5, 0.3, 0.15, 0.05, 0.7 and 1.0
ExactTitleCredit   == DoubleRatio(1, 2)
PartialTitleWeight == DoubleRatio(3, 10)
SameYearCredit     == DoubleRatio(3, 10)
NearYearCredit     == DoubleRatio(15, 100)
\* a plausible slip: 0.5 typed for 0.05
PosterCredit_half == DoubleRatio(1, 2)
PosterCredit       == DoubleRatio(5, 100)
BonusThreshold     == DoubleRatio(7, 10)
\* a plausible slip: 0.1 typed for 0.15
BonusCredit_tenth == DoubleRatio(1, 10)
BonusCredit        == DoubleRatio(15, 100)
ScoreCap           == DoubleOfInt(1)

LowerAlnum == { Ch(LowerLetters, i) : i \in 1..26 } \cup { Ch(Digits, i) : i \in 1..10 }
IsLowerAlnum(c) == c \in LowerAlnum

\* .replace(/[^a-z0-9\s]/g, '')
RECURSIVE stripPunctuation(_)
stripPunctuation(s) ==
    IF s = "" THEN ""
    ELSE (IF IsLowerAlnum(Ch(s, 1)) \/ IsWs(Ch(s, 1)) THEN Ch(s, 1) ELSE "")
         \o stripPunctuation(SubSeq(s, 2, Len(s)))

\* .replace(/\s+/g, ' ')
RECURSIVE collapseWhitespace(_)
collapseWhitespace(s) ==
    IF s = "" THEN ""
    ELSE IF IsWs(Ch(s, 1))
    THEN " " \o collapseWhitespace(trimStart(s))
    ELSE Ch(s, 1) \o collapseWhitespace(SubSeq(s, 2, Len(s)))

normalizeTitle(title) == trim(collapseWhitespace(stripPunctuation(toLowerCase(title))))

\* new Set(norm.split(' '))
wordSet(norm) == { split(norm, " ")[i] : i \in 1..Len(split(norm, " ")) }

similarity(candidateWords, originalWords) ==
    DoubleRatio(2 * Cardinality(candidateWords \cap originalWords),
                Cardinality(candidateWords) + Cardinality(originalWords))

titleScore(normCandidate, normOriginal) ==
    IF normCandidate = normOriginal THEN ExactTitleCredit
    ELSE DoubleMul(similarity(wordSet(normCandidate), wordSet(normOriginal)), PartialTitleWeight)

Abs(n) == IF n < 0 THEN 0 - n ELSE n

\* a plausible slip: the credits for the same year and for a year one apart are swapped
yearScore_swappedCredits(score, candidateYear, originalYear) ==
    IF ~Falsy(originalYear) /\ ~Falsy(candidateYear)
    THEN IF Abs(candidateYear.q - originalYear.q) = 0 THEN DoubleAdd(score, NearYearCredit)
         ELSE IF Abs(candidateYear.q - originalYear.q) = 4 THEN DoubleAdd(score, SameYearCredit)
         ELSE score
    ELSE IF Falsy(originalYear) THEN DoubleAdd(score, NearYearCredit)
    ELSE score

yearScore(score, candidateYear, originalYear) ==
    IF ~Falsy(originalYear) /\ ~Falsy(candidateYear)
    THEN IF Abs(candidateYear.q - originalYear.q) = 0 THEN DoubleAdd(score, SameYearCredit)
         ELSE IF Abs(candidateYear.q - originalYear.q) = 4 THEN DoubleAdd(score, NearYearCredit)
         ELSE score
    ELSE IF Falsy(originalYear) THEN DoubleAdd(score, NearYearCredit)
    ELSE score

posterScore(score, hasPoster) ==
    IF hasPoster THEN DoubleAdd(score, PosterCredit) ELSE score

bonusScore(score) ==
    IF ~DoubleLess(score, BonusThreshold) THEN DoubleAdd(score, BonusCredit) ELSE score

DoubleMin(x, y) == IF DoubleLess(y, x) THEN y ELSE x

\* a plausible slip: the bonus is decided before the poster credit is added
scoreAfterTitle_bonusBeforePoster(title, candidateYear, originalYear, hasPoster) ==
    DoubleMin(posterScore(bonusScore(yearScore(DoubleAdd(DoubleOfInt(0), title),
                                               candidateYear, originalYear)), hasPoster),
              ScoreCap)

\* let score = 0; score += title credit; year; poster; bonus; Math.min(score, 1.0)
scoreAfterTitle(title, candidateYear, originalYear, hasPoster) ==
    DoubleMin(bonusScore(posterScore(yearScore(DoubleAdd(DoubleOfInt(0), title),
                                               candidateYear, originalYear), hasPoster)),
              ScoreCap)

calculateMatchConfidence(candidateTitle, candidateYear, originalTitle, originalYear, hasPoster) ==
    scoreAfterTitle(titleScore(normalizeTitle(candidateTitle), normalizeTitle(originalTitle)),
                    candidateYear, originalYear, hasPoster)

\* titles and years of the documented examples and tests; a year is absent,
\* 0, or one of a run of consecutive years
MatchTitles ==
    {"Inception", "INCEPTION", "The Matrix", "Matrix", "The Matrix Reloaded",
     "Ocean's Eleven", "Oceans Eleven"}
MatchYears ==
    {JsNull, JsUndefined, JsNum(0), JsNum(4 * 2010)}
    \cup { JsNum(4 * (1999 + d)) : d \in 0..MaxYearGap }

\* the originals two candidates are compared against
OriginalTitles == {"The Matrix", "Inception"}
OriginalYears == {JsNull, JsNum(4 * 1999)}

(***************************************************************************)
(* Schema layer: rawWatchlistRowSchema (zod).  A validator gives           *)
(* [ok |-> FALSE, path] or [ok |-> TRUE, data]; zod runs the checks of a   *)
(* string in the order they are chained.                                   *)
(***************************************************************************)
TitleMin == 1
TitleMax == 500
YearMin == 1800
YearMax == 2100
RatingMin == 0
RatingMax == 10
NotesMax == 2000

Reject(path) == [ok |-> FALSE, path |-> path]

\* z.number().int().min(lo).max(hi).optional().nullable()
OptionalIntOk(v, lo, hi) ==
    \/ v.t \in {"undefined", "null"}
    \/ v.t = "num" /\ v.q % 4 = 0 /\ v.q >= 4 * lo /\ v.q <= 4 * hi

\* z.string().date(): YYYY-MM-DD naming a day of the calendar
ZodDate(s) ==
    /\ Len(s) = 10
    /\ IsoDatePrefix(s)
    /\ ToNumber(SubSeq(s, 6, 7)) \in 1..12
    /\ ToNumber(SubSeq(s, 9, 10)) \in
           1..DaysInMonth(ToNumber(SubSeq(s, 1, 4)), ToNumber(SubSeq(s, 6, 7)))

\* z.string().datetime({ offset: true }): date, T, time and Z or a numeric offset
ZodDatetimeOffset(s) ==
    /\ Len(s) > 11
    /\ ZodDate(SubSeq(s, 1, 10))
    /\ Ch(s, 11) = "T"
    /\ LET tail == SubSeq(s, 12, Len(s))
           zs   == ZoneStart(tail)
       IN  /\ zs > 1
           /\ TimeOfDay(SubSeq(tail, 1, zs - 1)).ok
           /\ ZoneDesignator(SubSeq(tail, zs, Len(tail))).ok

\* title: z.string().min(1).max(500).trim() - both length checks see the
\* untrimmed string, then the value is trimmed
titleField(v) ==
    IF v.t # "str" THEN Reject("title")
    ELSE IF Len(v.s) < TitleMin THEN Reject("title")
    ELSE IF Len(v.s) > TitleMax THEN Reject("title")
    ELSE [ok |-> TRUE, data |-> trim(v.s)]

\* dateAdded: z.string().datetime({ offset: true }).or(z.string().date()).optional().nullable()
dateAddedField(v) ==
    \/ v.t \in {"undefined", "null"}
    \/ v.t = "str" /\ (ZodDatetimeOffset(v.s) \/ ZodDate(v.s))

\* streamingProviders: z.array(z.string().trim()).default([])
streamingProvidersField(v) ==
    IF v.t = "undefined" THEN [ok |-> TRUE, data |-> JsList(<<>>)]
    ELSE IF v.t = "list" /\ \A i \in 1..Len(v.l) : v.l[i].t = "str"
    THEN [ok |-> TRUE, data |-> JsList([i \in 1..Len(v.l) |-> JsStr(trim(v.l[i].s))])]
    ELSE Reject("streamingProviders")

rawWatchlistRowSchema(row) ==
    LET title     == titleField(row.title)
        providers == streamingProvidersField(row.streamingProviders)
    IN  IF ~title.ok THEN title
        ELSE IF ~OptionalIntOk(row.year, YearMin, YearMax) THEN Reject("year")
        ELSE IF row.status.t \notin {"undefined", "str"} THEN Reject("status")
        ELSE IF ~OptionalIntOk(row.rating, RatingMin, RatingMax) THEN Reject("rating")
        ELSE IF ~(\/ row.notes.t \in {"undefined", "null"}
                  \/ row.notes.t = "str" /\ Len(row.notes.s) <= NotesMax)
             THEN Reject("notes")
        ELSE IF ~dateAddedField(row.dateAdded) THEN Reject("dateAdded")
        ELSE IF ~providers.ok THEN providers
        ELSE [ok |-> TRUE,
              data |-> [title  |-> title.data,
                        year   |-> row.year,
                        status |-> IF row.status.t = "undefined"
                                   THEN "not_watched" ELSE row.status.s,
                        rating |-> row.rating,
                        notes  |-> row.notes,
                        dateAdded |-> row.dateAdded,
                        streamingProviders |-> providers.data]]

\* c repeated n times
RECURSIVE Repeat(_, _)
Repeat(c, n) ==
    IF n = 0 THEN ""
    ELSE LET h == Repeat(c, n \div 2) IN h \o h \o (IF n % 2 = 1 THEN c ELSE "")

\* rows: a minimal row and the documented "Breaking Bad" row, each with one
\* field at a time replaced by the values that field can arrive with
MinimalRow ==
    [title |-> JsStr("The Matrix"), year |-> JsUndefined, status |-> JsUndefined,
     rating |-> JsUndefined, notes |-> JsUndefined, dateAdded |-> JsUndefined,
     streamingProviders |-> JsUndefined]

BreakingBadRow ==
    [title |-> JsStr("Breaking Bad"), year |-> JsNum(4 * 2008), status |-> JsStr("in progress"),
     rating |-> JsNum(4 * 10), notes |-> JsUndefined, dateAdded |-> JsUndefined,
     streamingProviders |-> JsList(<<JsStr("Netflix")>>)]

TitleValues ==
    {JsUndefined, JsNull, JsNum(4)} \cup
    { JsStr(t) : t \in {"", " ", "   ", "\t\n", "  Inception  ", "Up", " x",
                        Repeat("a", TitleMax), Repeat("a", TitleMax + 1),
                        " " \o Repeat("a", TitleMax - 1) \o " ",
                        " " \o Repeat("a", TitleMax - 1)} }

YearValues == {JsNull, JsNum(4 * 1799), JsNum(4 * 1800), JsNum(4 * 2100), JsNum(4 * 2101),
               JsNum(4 * 2010 + 2), JsNaN, JsStr("2010")}

StatusValues == {JsNull, JsStr("Watched"), JsStr("xyz"), JsStr(""), JsNum(4)}

RatingValues == {JsNull, JsNum(0), JsNum(4 * 9), JsNum(4 * 11), JsNum(-4), JsNum(30), JsStr("9")}

NotesValues == {JsNull, JsStr(""), JsStr("Amazing movie!"), JsStr(Repeat("n", NotesMax)),
                JsStr(Repeat("n", NotesMax + 1))}

DateAddedValues ==
    {JsNull, JsNum(4 * 86400000)} \cup
    { JsStr(d) : d \in {"2024-01-15", "2024-01-15T00:00:00.000Z", "2024-01-15T23:30:00+02:00",
                        "2024-01-15T10:30:00", "2023-02-29", "2024-02-29", "01/15/2024",
                        "1/5/2024", "15/01/2024", "15.01.2024", "31.02.2024", "13/45/2024",
                        "not-a-date", "invalid", ""} }

ProvidersValues ==
    {JsNull, JsStr("Netflix"), JsStr("Netflix, Hulu"), JsStr("[\"Netflix\"]"),
     JsList(<<>>), JsList(<<JsStr("  Netflix "), JsStr("HULU")>>),
     JsList(<<JsStr("netflix"), JsOther>>)}

RowsAround(base) ==
    {base}
    \cup { [base EXCEPT !.title = v] : v \in TitleValues }
    \cup { [base EXCEPT !.year = v] : v \in YearValues }
    \cup { [base EXCEPT !.status = v] : v \in StatusValues }
    \cup { [base EXCEPT !.rating = v] : v \in RatingValues }
    \cup { [base EXCEPT !.notes = v] : v \in NotesValues }
    \cup { [base EXCEPT !.dateAdded = v] : v \in DateAddedValues }
    \cup { [base EXCEPT !.streamingProviders = v] : v \in ProvidersValues }

RawRows == RowsAround(MinimalRow) \cup RowsAround(BreakingBadRow)

(***************************************************************************)
(* Preview Builder (spec 4.3): validate the row, normalise its fields,     *)
(* query the catalog, flag duplicates.                                     *)
(*   catalog: "down" (lookup failed), "none" (no candidate), "found"       *)
(*   existing: Null or Some(id of the stored entry the row duplicates)     *)
(***************************************************************************)
ValidationError(path) == "Validation failed: " \o path

SkippedPreview(title, error) ==
    [originalTitle |-> title, originalYear |-> Null, matchCandidates |-> <<>>,
     selectedMatchIndex |-> Null, suggestedStatus |-> "not_watched", rating |-> Null,
     notes |-> Null, dateAdded |-> Null, streamingProviders |-> <<>>,
     hasExistingEntry |-> FALSE, existingEntryId |-> Null,
     shouldSkip |-> TRUE, error |-> Some(error)]

\* a nullable field of a validated row as an optional value
OptNum(v) == IF v.t = "num" THEN Some(v.q \div 4) ELSE Null
OptStr(v) == IF v.t = "str" THEN Some(v.s) ELSE Null

previewFromRawRow(row, tz, lenient, catalog, existing, skipUnmatched) ==
    LET v == rawWatchlistRowSchema(row) IN
    IF ~v.ok
    THEN SkippedPreview(IF row.title.t = "str" THEN row.title.s ELSE "",
                        ValidationError(v.path))
    ELSE LET normalized ==
                 [originalTitle |-> v.data.title,
                  originalYear |-> OptNum(v.data.year),
                  matchCandidates |-> IF catalog = "found" THEN <<1>> ELSE <<>>,
                  selectedMatchIndex |-> Null,
                  suggestedStatus |-> normalizeWatchStatus(JsStr(v.data.status)),
                  rating |-> normalizeRating(v.data.rating, 10),
                  notes |-> OptStr(v.data.notes),
                  dateAdded |-> normalizeDateString(v.data.dateAdded, tz, lenient),
                  streamingProviders |-> parseStreamingProviders(v.data.streamingProviders),
                  hasExistingEntry |-> existing # Null,
                  existingEntryId |-> existing,
                  shouldSkip |-> FALSE,
                  error |-> Null]
         IN  IF catalog = "down"
             THEN [normalized EXCEPT !.shouldSkip = TRUE, !.error = Some("Catalog lookup failed"),
                                     !.hasExistingEntry = FALSE, !.existingEntryId = Null]
             ELSE IF catalog = "none" /\ skipUnmatched
             THEN [normalized EXCEPT !.shouldSkip = TRUE, !.error = Some("No match found")]
             ELSE normalized

CatalogOutcomes == {"down", "none", "found"}

(***************************************************************************)
(* Export format (spec 4.6): the schema of one exported entry, and the     *)
(* re-import of an exported entry as a raw row                             *)
(***************************************************************************)
MediaTypes == {"movie", "tv"}

\* z.number().int().optional().nullable()
AnyOptionalIntOk(v) ==
    \/ v.t \in {"undefined", "null"}
    \/ v.t = "num" /\ v.q % 4 = 0

\* z.string().datetime({ offset: true }).optional().nullable()
dateWatchedField(v) ==
    \/ v.t \in {"undefined", "null"}
    \/ v.t = "str" /\ ZodDatetimeOffset(v.s)

\* z.array(z.string()).default([])
exportedProvidersField(v) ==
    IF v.t = "undefined" THEN [ok |-> TRUE, data |-> JsList(<<>>)]
    ELSE IF v.t = "list" /\ \A i \in 1..Len(v.l) : v.l[i].t = "str"
    THEN [ok |-> TRUE, data |-> v]
    ELSE Reject("streamingProviders")

exportedWatchlistEntrySchema(entry) ==
    LET providers == exportedProvidersField(entry.streamingProviders)
    IN  IF entry.title.t # "str" THEN Reject("title")
        ELSE IF ~AnyOptionalIntOk(entry.year) THEN Reject("year")
        ELSE IF ~(entry.type.t = "str" /\ entry.type.s \in MediaTypes) THEN Reject("type")
        ELSE IF ~(entry.status.t = "str" /\ entry.status.s \in WatchStatus)
             THEN Reject("status")
        ELSE IF ~OptionalIntOk(entry.rating, RatingMin, RatingMax) THEN Reject("rating")
        ELSE IF entry.notes.t \notin {"undefined", "null", "str"} THEN Reject("notes")
        ELSE IF ~(entry.dateAdded.t = "str" /\ ZodDatetimeOffset(entry.dateAdded.s))
             THEN Reject("dateAdded")
        ELSE IF ~dateWatchedField(entry.dateWatched) THEN Reject("dateWatched")
        ELSE IF ~providers.ok THEN providers
        ELSE IF ~(\/ entry.tmdbId.t = "undefined"
                  \/ entry.tmdbId.t = "num" /\ entry.tmdbId.q % 4 = 0 /\ entry.tmdbId.q > 0)
             THEN Reject("tmdbId")
        ELSE IF entry.posterPath.t \notin {"undefined", "null", "str"}
             THEN Reject("posterPath")
        ELSE [ok |-> TRUE, data |-> [entry EXCEPT !.streamingProviders = providers.data]]

\* the exported entries of the schema's tests, each with one field at a time
\* replaced by the values an entry can carry
CompleteEntry ==
    [title |-> JsStr("Inception"), year |-> JsNum(4 * 2010), type |-> JsStr("movie"),
     status |-> JsStr("completed"), rating |-> JsNum(4 * 9), notes |-> JsStr("Amazing movie!"),
     dateAdded |-> JsStr("2024-01-15T00:00:00.000Z"),
     dateWatched |-> JsStr("2024-01-20T00:00:00.000Z"),
     streamingProviders |-> JsList(<<JsStr("netflix")>>),
     tmdbId |-> JsNum(4 * 27205), posterPath |-> JsStr("/poster.jpg")]

MinimalEntry ==
    [title |-> JsStr("The Matrix"), year |-> JsNull, type |-> JsStr("movie"),
     status |-> JsStr("not_watched"), rating |-> JsNull, notes |-> JsNull,
     dateAdded |-> JsStr("2024-01-15T00:00:00.000Z"), dateWatched |-> JsNull,
     streamingProviders |-> JsUndefined, tmdbId |-> JsUndefined, posterPath |-> JsUndefined]

TvEntry ==
    [title |-> JsStr("Breaking Bad"), year |-> JsNum(4 * 2008), type |-> JsStr("tv"),
     status |-> JsStr("watching"), rating |-> JsNum(4 * 10), notes |-> JsStr("Best show ever"),
     dateAdded |-> JsStr("2024-01-01T00:00:00.000Z"), dateWatched |-> JsUndefined,
     streamingProviders |-> JsUndefined, tmdbId |-> JsUndefined, posterPath |-> JsUndefined]

EntriesAround(base) ==
    {base}
    \cup { [base EXCEPT !.title = v] : v \in TitleValues }
    \cup { [base EXCEPT !.year = v] : v \in YearValues \cup {JsUndefined, JsNum(4 * 1999)} }
    \cup { [base EXCEPT !.type = v] : v \in {JsStr("movie"), JsStr("tv"), JsStr("book"), JsNull} }
    \cup { [base EXCEPT !.status = v] :
             v \in StatusValues \cup { JsStr(st) : st \in WatchStatus } }
    \cup { [base EXCEPT !.rating = v] : v \in RatingValues \cup {JsNum(4 * 10)} }
    \cup { [base EXCEPT !.notes = v] : v \in NotesValues }
    \cup { [base EXCEPT !.dateAdded = v] : v \in DateAddedValues \cup {JsUndefined} }
    \cup { [base EXCEPT !.streamingProviders = v] :
             v \in ProvidersValues \cup {JsList(<<JsStr("netflix"), JsStr("hulu")>>),
                                         JsList(<<JsStr("Netflix")>>),
                                         JsList(<<JsStr("")>>)} }
    \cup { [base EXCEPT !.tmdbId = v] : v \in {JsUndefined, JsNum(0), JsNum(4 * 603)} }

ExportedEntries == EntriesAround(CompleteEntry) \cup EntriesAround(MinimalEntry)
                       \cup EntriesAround(TvEntry)

\* the exported entry fed back in as a raw row: Null when the export schema
\* does not accept the entry
reimport(entry, tz) ==
    LET exported == exportedWatchlistEntrySchema(entry) IN
    IF ~exported.ok THEN Null
    ELSE Some([exported |-> exported.data,
               row |-> rawWatchlistRowSchema(exported.data),
               preview |-> previewFromRawRow(exported.data, tz, FALSE, "found", Null, FALSE)])

(***************************************************************************)
(* Previewing a batch (spec 4.3, 5): every row is validated, the lookups   *)
(* of the valid rows run concurrently and complete in any order, and the   *)
(* previews are collected by the position of their row.                    *)
(*   a lookup's answer: what the catalog query and the store lookup gave   *)
(***************************************************************************)
Lookups ==
    {[catalog |-> "down", store |-> "none"], [catalog |-> "none", store |-> "none"],
     [catalog |-> "found", store |-> "none"], [catalog |-> "found", store |-> "found"],
     [catalog |-> "found", store |-> "down"]}

lookupFailed(lookup) == lookup.catalog = "down" \/ lookup.store = "down"

\* a plausible slip: a failed store lookup is taken for "no existing entry"
previewRow_storeFailureIgnored(row, lookup, skipUnmatched) ==
    previewFromRawRow(row, 0, FALSE, lookup.catalog,
                      IF lookup.store = "found" THEN Some("clx123456789") ELSE Null, skipUnmatched)

\* the preview of one row given the answer of its lookups
previewRow(row, lookup, skipUnmatched) ==
    IF lookup.catalog # "down" /\ lookup.store = "down"
    THEN [previewFromRawRow(row, 0, FALSE, lookup.catalog, Null, skipUnmatched)
             EXCEPT !.shouldSkip = TRUE, !.error = Some("Store lookup failed")]
    ELSE previewFromRawRow(row, 0, FALSE, lookup.catalog,
                           IF lookup.store = "found" THEN Some("clx123456789") ELSE Null,
                           skipUnmatched)

\* a plausible slip: the previews are collected in the order the lookups complete
gather_byCompletionOrder(slots, order) ==
    [k \in 1..Len(order) |-> slots[order[k]][1]]

\* the previews by the position of their row
gather(slots, order) ==
    [k \in 1..Len(slots) |-> slots[k][1]]

NoBatch ==
    [phase |-> "idle", rows |-> <<>>, skipUnmatched |-> FALSE, inflight |-> {},
     answers |-> <<>>, slots |-> <<>>, order |-> <<>>, items |-> <<>>]

\* the rows of a batch: valid rows of different titles and a row without title
BatchRows ==
    {MinimalRow, BreakingBadRow, [MinimalRow EXCEPT !.title = JsStr("  Heat ")],
     [BreakingBadRow EXCEPT !.title = JsStr("")]}

Batches ==
    UNION { { rows \in [1..n -> BatchRows] :
                \A i, j \in 1..n : i # j => rows[i] # rows[j] } : n \in 1..MaxRows }

\* the rows are validated; the lookups of the valid ones are launched
startBatch(rows, skipUnmatched) ==
    LET valid == { k \in 1..Len(rows) : rawWatchlistRowSchema(rows[k]).ok } IN
    [phase |-> "gathering", rows |-> rows, skipUnmatched |-> skipUnmatched,
     inflight |-> valid,
     answers |-> [k \in 1..Len(rows) |-> Null],
     slots |-> [k \in 1..Len(rows) |->
                   IF k \in valid THEN Null
                   ELSE Some(previewFromRawRow(rows[k], 0, FALSE, "none", Null,
                                               skipUnmatched))],
     order |-> SelectSeq([k \in 1..Len(rows) |-> k], LAMBDA k : k \notin valid),
     items |-> <<>>]

\* the lookups of row k have answered
completeLookup(batch, k, lookup) ==
    [batch EXCEPT !.inflight = @ \ {k},
                  !.answers[k] = Some(lookup),
                  !.slots[k] = Some(previewRow(batch.rows[k], lookup, batch.skipUnmatched)),
                  !.order = Append(@, k)]

(***************************************************************************)
(* Duplicate Resolution Engine (spec 4.4)                                  *)
(***************************************************************************)
\* a plausible slip: without merge fields a merge takes the incoming status
DefaultMergeFields_statusTrue ==
    [status |-> TRUE, rating |-> FALSE, notes |-> "keep", streamingProviders |-> "keep"]

DefaultMergeFields ==
    [status |-> FALSE, rating |-> FALSE, notes |-> "keep", streamingProviders |-> "keep"]

\* a plausible slip: a rating the resolution does not mention is replaced
mergeFieldsSchema_ratingDefaultsTrue(given) ==
    [status |-> IF "status" \in DOMAIN given THEN given.status ELSE FALSE,
     rating |-> IF "rating" \in DOMAIN given THEN given.rating ELSE TRUE,
     notes  |-> IF "notes" \in DOMAIN given THEN given.notes ELSE "keep",
     streamingProviders |-> IF "streamingProviders" \in DOMAIN given
                            THEN given.streamingProviders ELSE "keep"]

\* mergeFieldsSchema: the fields a resolution leaves out take their defaults
mergeFieldsSchema(given) ==
    [status |-> IF "status" \in DOMAIN given THEN given.status ELSE FALSE,
     rating |-> IF "rating" \in DOMAIN given THEN given.rating ELSE FALSE,
     notes  |-> IF "notes" \in DOMAIN given THEN given.notes ELSE "keep",
     streamingProviders |-> IF "streamingProviders" \in DOMAIN given
                            THEN given.streamingProviders ELSE "keep"]

NotesSeparator == "\n"

\* notes "append": existing, separator, incoming; no separator when a side is empty
appendNotes(existing, incoming) ==
    IF incoming = Null \/ incoming = Some("") THEN existing
    ELSE IF existing = Null \/ existing = Some("") THEN incoming
    ELSE Some(existing[1] \o NotesSeparator \o incoming[1])

\* providers "merge": the existing ones, then the new ones not yet present
unionProviders(existing, incoming) ==
    existing \o SelectSeq(incoming, LAMBDA p : \A i \in 1..Len(existing) : existing[i] # p)

\* the stored fields an incoming item carries
incomingFields(item) ==
    [title |-> item.originalTitle, status |-> item.suggestedStatus, rating |-> item.rating,
     notes |-> item.notes, streamingProviders |-> item.streamingProviders]

resolveDuplicate(existing, item, strategy, mergeFields) ==
    CASE strategy = "skip" -> existing
      [] strategy = "overwrite" -> incomingFields(item)
      [] strategy = "merge" ->
            [title  |-> existing.title,
             status |-> IF mergeFields.status THEN item.suggestedStatus ELSE existing.status,
             rating |-> IF mergeFields.rating THEN item.rating ELSE existing.rating,
             notes  |-> CASE mergeFields.notes = "append" -> appendNotes(existing.notes, item.notes)
                          [] mergeFields.notes = "replace" -> item.notes
                          [] OTHER -> existing.notes,
             streamingProviders |->
                 CASE mergeFields.streamingProviders = "merge" ->
                          unionProviders(existing.streamingProviders, item.streamingProviders)
                   [] mergeFields.streamingProviders = "replace" -> item.streamingProviders
                   [] OTHER -> existing.streamingProviders]

(***************************************************************************)
(* Bulk Import Committer (spec 4.5): the items of a request are committed  *)
(* one by one, in order; an item is skipped, imported or failed.           *)
(***************************************************************************)
EmptyResult ==
    [imported |-> 0, skipped |-> 0, failed |-> 0, merged |-> 0, overwritten |-> 0,
     errors |-> <<>>]

\* the resolution given for the item at a 0-based index, or the default one
resolutionFor(request, itemIndex) ==
    IF \E k \in 1..Len(request.resolutions) : request.resolutions[k].itemIndex = itemIndex
    THEN LET k == CHOOSE j \in 1..Len(request.resolutions) :
                      /\ request.resolutions[j].itemIndex = itemIndex
                      /\ \A h \in 1..(j - 1) : request.resolutions[h].itemIndex # itemIndex
             r == request.resolutions[k]
         IN  [strategy |-> r.strategy,
              mergeFields |-> IF r.mergeFields = Null THEN DefaultMergeFields
                              ELSE r.mergeFields[1]]
    ELSE [strategy |-> request.defaultDuplicateStrategy, mergeFields |-> DefaultMergeFields]

\* the store gives every new record an id of its own
NewEntryId(entries) == "new" \o NumToString(Cardinality(DOMAIN entries))

\* a plausible slip: skipUnmatched is not looked at
commitItem_unmatchedImported(request, itemIndex, entries, writeFails) ==
    LET item == request.items[itemIndex + 1]
        Skipped == [kind |-> "skipped", sub |-> "none", store |-> entries, error |-> ""]
        Failed(e) == [kind |-> "failed", sub |-> "none", store |-> entries, error |-> e]
    IN  IF item.shouldSkip THEN Skipped
        ELSE IF item.hasExistingEntry
        THEN LET res == resolutionFor(request, itemIndex) IN
             IF res.strategy = "skip" THEN Skipped
             ELSE IF item.existingEntryId = Null
                     \/ item.existingEntryId[1] \notin DOMAIN entries
             THEN Failed("Existing entry not found")
             ELSE IF writeFails THEN Failed("Store write failed")
             ELSE LET id == item.existingEntryId[1] IN
                  [kind |-> "imported",
                   sub  |-> IF res.strategy = "merge" THEN "merged" ELSE "overwritten",
                   store |-> [entries EXCEPT ![id] =
                                 resolveDuplicate(entries[id], item, res.strategy,
                                                  res.mergeFields)],
                   error |-> ""]
        ELSE IF writeFails THEN Failed("Store write failed")
        ELSE LET id == NewEntryId(entries) IN
             [kind |-> "imported", sub |-> "none",
              store |-> [e \in DOMAIN entries \cup {id} |->
                            IF e = id THEN incomingFields(item) ELSE entries[e]],
              error |-> ""]

\* what committing one item does: [kind, sub, store, error]
\*   writeFails: the store rejects this item's write (or read)
commitItem(request, itemIndex, entries, writeFails) ==
    LET item == request.items[itemIndex + 1]
        Skipped == [kind |-> "skipped", sub |-> "none", store |-> entries, error |-> ""]
        Failed(e) == [kind |-> "failed", sub |-> "none", store |-> entries, error |-> e]
    IN  IF item.shouldSkip THEN Skipped
        ELSE IF request.skipUnmatched /\ item.matchCandidates = <<>> THEN Skipped
        ELSE IF item.hasExistingEntry
        THEN LET res == resolutionFor(request, itemIndex) IN
             IF res.strategy = "skip" THEN Skipped
             ELSE IF item.existingEntryId = Null
                     \/ item.existingEntryId[1] \notin DOMAIN entries
             THEN Failed("Existing entry not found")
             ELSE IF writeFails THEN Failed("Store write failed")
             ELSE LET id == item.existingEntryId[1] IN
                  [kind |-> "imported",
                   sub  |-> IF res.strategy = "merge" THEN "merged" ELSE "overwritten",
                   store |-> [entries EXCEPT ![id] =
                                 resolveDuplicate(entries[id], item, res.strategy,
                                                  res.mergeFields)],
                   error |-> ""]
        ELSE IF writeFails THEN Failed("Store write failed")
        ELSE LET id == NewEntryId(entries) IN
             [kind |-> "imported", sub |-> "none",
              store |-> [e \in DOMAIN entries \cup {id} |->
                            IF e = id THEN incomingFields(item) ELSE entries[e]],
              error |-> ""]

\* a plausible slip: an item dropped by a skip is not counted at all
countOutcome_skipUncounted(res, outcome, itemIndex, title) ==
    CASE outcome.kind = "skipped" -> res
      [] outcome.kind = "failed" ->
            [res EXCEPT !.failed = @ + 1,
                        !.errors = Append(@, [itemIndex |-> itemIndex, title |-> title,
                                              error |-> outcome.error])]
      [] OTHER ->
            [res EXCEPT !.imported = @ + 1,
                        !.merged = IF outcome.sub = "merged" THEN @ + 1 ELSE @,
                        !.overwritten = IF outcome.sub = "overwritten" THEN @ + 1 ELSE @]

\* the ImportResult after one more outcome
countOutcome(res, outcome, itemIndex, title) ==
    CASE outcome.kind = "skipped" -> [res EXCEPT !.skipped = @ + 1]
      [] outcome.kind = "failed" ->
            [res EXCEPT !.failed = @ + 1,
                        !.errors = Append(@, [itemIndex |-> itemIndex, title |-> title,
                                              error |-> outcome.error])]
      [] OTHER ->
            [res EXCEPT !.imported = @ + 1,
                        !.merged = IF outcome.sub = "merged" THEN @ + 1 ELSE @,
                        !.overwritten = IF outcome.sub = "overwritten" THEN @ + 1 ELSE @]

\* a plausible slip: the first failure ends the batch
phaseAfterItem_abortOnFailure(request, itemIndex, outcome) ==
    IF outcome.kind = "failed" \/ itemIndex + 1 = Len(request.items)
    THEN "done" ELSE "running"

\* the batch goes on to the next item whatever the outcome
phaseAfterItem(request, itemIndex, outcome) ==
    IF itemIndex + 1 = Len(request.items) THEN "done" ELSE "running"

\* preview items a request is made of
ItemBase ==
    [originalTitle |-> "Inception", originalYear |-> Some(2010), matchCandidates |-> <<1>>,
     selectedMatchIndex |-> Null, suggestedStatus |-> "completed", rating |-> Some(9),
     notes |-> Some("again"), dateAdded |-> Null, streamingProviders |-> <<"netflix", "hulu">>,
     hasExistingEntry |-> FALSE, existingEntryId |-> Null, shouldSkip |-> FALSE,
     error |-> Null]

ItemPool ==
    {ItemBase,
     [ItemBase EXCEPT !.originalTitle = "Heat", !.matchCandidates = <<>>, !.rating = Null],
     [ItemBase EXCEPT !.originalTitle = "", !.shouldSkip = TRUE,
                      !.error = Some("Validation failed: title")],
     [ItemBase EXCEPT !.hasExistingEntry = TRUE, !.existingEntryId = Some("clx123456789")],
     [ItemBase EXCEPT !.originalTitle = "Dune", !.matchCandidates = <<>>,
                      !.hasExistingEntry = TRUE, !.existingEntryId = Some("clx987654321")]}

ExistingEntry ==
    [title |-> "Inception", status |-> "watching", rating |-> Some(7),
     notes |-> Some("first"), streamingProviders |-> <<"hulu">>]

\* the stores a commit can find: empty, or holding the entry e1
Stores == { [e \in {} |-> ExistingEntry], [e \in {"clx123456789"} |-> ExistingEntry] }

StatusAndNotes == [status |-> TRUE, notes |-> "append"]

MergeFieldsChoices ==
    {Null, Some(mergeFieldsSchema(<<>>)), Some(mergeFieldsSchema(StatusAndNotes)),
     Some(mergeFieldsSchema([status |-> TRUE, rating |-> TRUE, notes |-> "replace",
                             streamingProviders |-> "merge"]))}

Strategies == {"skip", "overwrite", "merge"}

\* resolutions name the duplicates of the request, as the client builds them
ResolutionsFor(items) ==
    LET dups == { i \in 1..Len(items) : items[i].hasExistingEntry } IN
    {<<>>}
    \cup { <<[itemIndex |-> i - 1, strategy |-> st, mergeFields |-> Null]>> :
              i \in dups, st \in Strategies }
    \cup { <<[itemIndex |-> i - 1, strategy |-> "merge", mergeFields |-> mf]>> :
              i \in dups, mf \in MergeFieldsChoices }

ItemLists == UNION { [1..n -> ItemPool] : n \in 0..MaxItems }

Requests ==
    UNION { [items : {items}, resolutions : ResolutionsFor(items),
             skipUnmatched : BOOLEAN, defaultDuplicateStrategy : Strategies] :
            items \in ItemLists }

(***************************************************************************)
(* Request validation: normalizedPreviewItemSchema, duplicateResolution-   *)
(* Schema and bulkImportRequestSchema. A field that may be left out is     *)
(* Null when it is.                                                        *)
(***************************************************************************)
\* z.string().cuid(): a "c" and at least eight characters that are neither
\* whitespace nor "-"
CuidTailMin == 8

IsCuid(id) ==
    /\ Len(id) >= 1 + CuidTailMin
    /\ Ch(id, 1) \in {"c", "C"}
    /\ \A i \in 2..Len(id) : ~IsWs(Ch(id, i)) /\ Ch(id, i) # "-"

normalizedPreviewItemSchema(item) ==
    /\ item.selectedMatchIndex = Null \/ item.selectedMatchIndex[1] >= 0
    /\ item.suggestedStatus \in WatchStatus
    /\ item.rating = Null \/ item.rating[1] \in RatingMin..RatingMax
    /\ item.notes = Null \/ Len(item.notes[1]) <= NotesMax
    /\ item.dateAdded = Null \/ ZodDatetimeOffset(item.dateAdded[1])
    /\ item.hasExistingEntry \in BOOLEAN
    /\ item.existingEntryId = Null \/ IsCuid(item.existingEntryId[1])
    /\ item.shouldSkip \in BOOLEAN

\* preview items as they can be sent: the items of the requests, a duplicate
\* without the id of its entry or with an id that is no cuid, a bad date
SentPreviewItems ==
    ItemPool
    \cup {[ItemBase EXCEPT !.hasExistingEntry = TRUE],
          [ItemBase EXCEPT !.hasExistingEntry = TRUE, !.existingEntryId = Some("42")],
          [ItemBase EXCEPT !.existingEntryId = Some("clx123456789")],
          [ItemBase EXCEPT !.dateAdded = Some("2024-01-15T00:00:00.000Z")],
          [ItemBase EXCEPT !.dateAdded = Some("2024-01-15")],
          [ItemBase EXCEPT !.rating = Some(RatingMax + 1)],
          [ItemBase EXCEPT !.notes = Some(Repeat("n", NotesMax + 1))],
          [ItemBase EXCEPT !.selectedMatchIndex = Some(-1)],
          [ItemBase EXCEPT !.selectedMatchIndex = Some(0)]}

(***************************************************************************)
(* The stored-entry schema watchlistEntrySchema: the constraints on the    *)
(* fields an import writes (status, rating, notes)                         *)
(***************************************************************************)
StoredRatingMin == 1
StoredRatingMax == 10
StoredNotesMax == 1000

\* status: watchStatusSchema; rating: z.number().int().min(1).max(10).nullable();
\* notes: z.string().max(1000).nullable()
watchlistEntryFields(entry) ==
    /\ entry.status \in WatchStatus
    /\ entry.rating = Null \/ entry.rating[1] \in StoredRatingMin..StoredRatingMax
    /\ entry.notes = Null \/ Len(entry.notes[1]) <= StoredNotesMax

\* preview items at the borders of both schemas
BorderItems ==
    { [ItemBase EXCEPT !.rating = Some(r)] :
        r \in {RatingMin, StoredRatingMin, StoredRatingMax, RatingMax + 1} }
    \cup { [ItemBase EXCEPT !.notes = Some(Repeat("n", n))] :
              n \in {0, StoredNotesMax, StoredNotesMax + 1, NotesMax, NotesMax + 1} }
    \cup {[ItemBase EXCEPT !.rating = Null, !.notes = Null]}

\* the items as new titles and as duplicates of the stored entry
StoredItems ==
    BorderItems
    \cup { [item EXCEPT !.hasExistingEntry = TRUE, !.existingEntryId = Some("clx123456789")] :
              item \in BorderItems }

\* the request that stores one item: a duplicate overwrites its entry
storeRequest(item) ==
    [items |-> <<item>>, resolutions |-> <<>>, skipUnmatched |-> FALSE,
     defaultDuplicateStrategy |-> "overwrite"]

MergeNotes == {"append", "replace", "keep"}
MergeProviders == {"merge", "replace", "keep"}

\* itemIndex: z.number().int().min(0); strategy: the enum; mergeFields: optional
duplicateResolutionSchema(resolution) ==
    IF resolution.itemIndex < 0 THEN Reject("itemIndex")
    ELSE IF resolution.strategy \notin Strategies THEN Reject("strategy")
    ELSE IF resolution.mergeFields = Null THEN [ok |-> TRUE, data |-> resolution]
    ELSE LET merged == mergeFieldsSchema(resolution.mergeFields[1]) IN
         IF merged.notes \notin MergeNotes \/ merged.streamingProviders \notin MergeProviders
         THEN Reject("mergeFields")
         ELSE [ok |-> TRUE, data |-> [resolution EXCEPT !.mergeFields = Some(merged)]]

bulkImportRequestSchema(request) ==
    LET resolutions == IF request.resolutions = Null THEN <<>> ELSE request.resolutions[1]
        parsed == [k \in 1..Len(resolutions) |-> duplicateResolutionSchema(resolutions[k])]
    IN  IF \E i \in 1..Len(request.items) : ~normalizedPreviewItemSchema(request.items[i])
        THEN Reject("items")
        ELSE IF \E k \in 1..Len(parsed) : ~parsed[k].ok THEN Reject("resolutions")
        ELSE IF request.defaultDuplicateStrategy # Null
                /\ request.defaultDuplicateStrategy[1] \notin Strategies
        THEN Reject("defaultDuplicateStrategy")
        ELSE [ok |-> TRUE,
              data |-> [items |-> request.items,
                        resolutions |-> [k \in 1..Len(parsed) |-> parsed[k].data],
                        skipUnmatched |-> IF request.skipUnmatched = Null THEN FALSE
                                          ELSE request.skipUnmatched[1],
                        defaultDuplicateStrategy |->
                            IF request.defaultDuplicateStrategy = Null THEN "skip"
                            ELSE request.defaultDuplicateStrategy[1]]]

\* requests as they can be sent: any item list, any resolution
SentItems ==
    {ItemBase,
     [ItemBase EXCEPT !.hasExistingEntry = TRUE, !.existingEntryId = Some("clx123456789")],
     [ItemBase EXCEPT !.originalTitle = "Heat", !.rating = Some(RatingMax + 1)]}

SentResolutions(n) ==
    {Null, Some(<<>>)}
    \cup { Some(<<[itemIndex |-> i, strategy |-> st, mergeFields |-> mf]>>) :
              i \in -1..(n + 1), st \in Strategies \cup {"replace"},
              mf \in {Null, Some(StatusAndNotes), Some([notes |-> "prepend"])} }

SentRequests ==
    UNION { [items : [1..n -> SentItems], resolutions : SentResolutions(n),
             skipUnmatched : {Null}, defaultDuplicateStrategy : {Null, Some("merge")}] :
            n \in 0..MaxItems }

(***************************************************************************)
(* Export response: the envelope of an export and its schema               *)
(***************************************************************************)
DefaultVersion == "1.0"

\* the response the API builds from the entries it exports (Export Flow)
exportResponse(entries, exportedAt, userId) ==
    [exportedAt |-> exportedAt, userId |-> userId, version |-> Some(DefaultVersion),
     totalEntries |-> Len(entries), entries |-> entries]

exportResponseSchema(response) ==
    LET parsed == [k \in 1..Len(response.entries) |->
                      exportedWatchlistEntrySchema(response.entries[k])]
    IN  IF ~ZodDatetimeOffset(response.exportedAt) THEN Reject("exportedAt")
        ELSE IF ~IsCuid(response.userId) THEN Reject("userId")
        ELSE IF response.totalEntries < 0 THEN Reject("totalEntries")
        ELSE IF \E k \in 1..Len(parsed) : ~parsed[k].ok THEN Reject("entries")
        ELSE [ok |-> TRUE,
              data |-> [exportedAt |-> response.exportedAt,
                        userId |-> response.userId,
                        version |-> IF response.version = Null THEN DefaultVersion
                                    ELSE response.version[1],
                        totalEntries |-> response.totalEntries,
                        entries |-> [k \in 1..Len(parsed) |-> parsed[k].data]]]

\* responses as they can be sent: the ones the API builds, and the same with
\* any count, a user id that is no cuid, no version
SentEntries == {CompleteEntry, TvEntry, [MinimalEntry EXCEPT !.type = JsStr("book")]}

EntryLists == UNION { [1..n -> SentEntries] : n \in 0..MaxItems }

SentResponses ==
    { exportResponse(entries, "2024-01-15T12:00:00.000Z", "clx123456789") :
          entries \in EntryLists }
    \cup [exportedAt : {"2024-01-15T12:00:00.000Z"},
          userId : {"clx123456789", "42"},
          version : {Null},
          totalEntries : -1..(MaxItems + 1),
          entries : EntryLists]

(***************************************************************************)
(* Actions                                                                 *)
(***************************************************************************)
NoCall == "none"
NoArgs == [arg |-> JsUndefined]

CallNormalizeWatchStatus ==
    /\ fn = NoCall /\ phase = "idle" /\ pv.phase = "idle"
    /\ UNCHANGED <<commitVars, pv>>
    /\ fn' = "normalizeWatchStatus"
    /\ \E status \in StatusInputs :
        call' = [arg |-> status, res |-> normalizeWatchStatus(status)]

CallNormalizeRating ==
    /\ fn = NoCall /\ phase = "idle" /\ pv.phase = "idle"
    /\ UNCHANGED <<commitVars, pv>>
    /\ fn' = "normalizeRating"
    /\ \E rating \in RatingInputs, scale \in Scales :
        call' = [arg |-> rating, scale |-> scale, res |-> normalizeRating(rating, scale)]

confidenceCall(candidateTitle, originalTitle, title, candidateYear, originalYear, hasPoster) ==
    [candidateTitle |-> candidateTitle, candidateYear |-> candidateYear,
     originalTitle |-> originalTitle, originalYear |-> originalYear,
     hasPoster |-> hasPoster,
     res |-> scoreAfterTitle(title, candidateYear, originalYear, hasPoster)]

CallCalculateMatchConfidence ==
    /\ fn = NoCall /\ phase = "idle" /\ pv.phase = "idle"
    /\ UNCHANGED <<commitVars, pv>>
    /\ fn' = "calculateMatchConfidence"
    /\ \E candidateTitle \in MatchTitles, originalTitle \in MatchTitles :
        LET title == titleScore(normalizeTitle(candidateTitle), normalizeTitle(originalTitle))
        IN  \E candidateYear \in MatchYears, originalYear \in MatchYears, hasPoster \in BOOLEAN :
                call' = confidenceCall(candidateTitle, originalTitle, title,
                                       candidateYear, originalYear, hasPoster)

\* two candidates that differ in the title or in the year are scored against
\* one original, as the catalog's candidates of one row are
candidatesCall(originalTitle, originalYear, hasPoster, candidateTitle, candidateYear, title,
               otherTitle, otherYear, other) ==
    [originalTitle |-> originalTitle, originalYear |-> originalYear, hasPoster |-> hasPoster,
     candidateTitle |-> candidateTitle, candidateYear |-> candidateYear,
     res |-> scoreAfterTitle(title, candidateYear, originalYear, hasPoster),
     otherTitle |-> otherTitle, otherYear |-> otherYear,
     otherRes |-> scoreAfterTitle(other, otherYear, originalYear, hasPoster)]

CallScoreCandidates ==
    /\ fn = NoCall /\ phase = "idle" /\ pv.phase = "idle"
    /\ UNCHANGED <<commitVars, pv>>
    /\ fn' = "scoreCandidates"
    /\ \E originalTitle \in OriginalTitles, candidateTitle \in MatchTitles,
          otherTitle \in MatchTitles :
        LET title == titleScore(normalizeTitle(candidateTitle), normalizeTitle(originalTitle))
            other == titleScore(normalizeTitle(otherTitle), normalizeTitle(originalTitle))
        IN  \E originalYear \in OriginalYears, candidateYear \in MatchYears,
               otherYear \in MatchYears, hasPoster \in BOOLEAN :
                /\ (otherTitle = candidateTitle) # (otherYear = candidateYear)
                /\ call' = candidatesCall(originalTitle, originalYear, hasPoster,
                                          candidateTitle, candidateYear, title,
                                          otherTitle, otherYear, other)

\* the score before the poster credit: title credit plus year credit
titlePlusYear(title, candidateYear, originalYear) ==
    yearScore(DoubleAdd(DoubleOfInt(0), title), candidateYear, originalYear)

\* the candidates the catalog returns for one row: each has its own title,
\* year and poster
RankTitles == {"The Matrix", "Matrix", "The Matrix Reloaded", "Inception"}
RankYears == {JsNull, JsNum(4 * 1999), JsNum(4 * 2000)}

rankedPair(originalTitle, originalYear, candidateTitle, candidateYear, hasPoster,
           otherTitle, otherYear, otherHasPoster) ==
    LET title == titleScore(normalizeTitle(candidateTitle), normalizeTitle(originalTitle))
        other == titleScore(normalizeTitle(otherTitle), normalizeTitle(originalTitle))
    IN  [originalTitle |-> originalTitle, originalYear |-> originalYear,
         candidateTitle |-> candidateTitle, candidateYear |-> candidateYear,
         hasPoster |-> hasPoster,
         credit |-> titlePlusYear(title, candidateYear, originalYear),
         res |-> scoreAfterTitle(title, candidateYear, originalYear, hasPoster),
         otherTitle |-> otherTitle, otherYear |-> otherYear,
         otherHasPoster |-> otherHasPoster,
         otherCredit |-> titlePlusYear(other, otherYear, originalYear),
         otherRes |-> scoreAfterTitle(other, otherYear, originalYear, otherHasPoster)]

RankedPairs ==
    { rankedPair(originalTitle, originalYear, candidateTitle, candidateYear, hasPoster,
                 otherTitle, otherYear, otherHasPoster) :
        originalTitle \in OriginalTitles, originalYear \in OriginalYears,
        candidateTitle \in RankTitles, candidateYear \in RankYears, hasPoster \in BOOLEAN,
        otherTitle \in RankTitles, otherYear \in RankYears, otherHasPoster \in BOOLEAN }

CallRankCandidates ==
    /\ fn = NoCall /\ phase = "idle" /\ pv.phase = "idle"
    /\ UNCHANGED <<commitVars, pv>>
    /\ fn' = "rankCandidates"
    /\ \E pair \in RankedPairs : call' = pair

\* the call also re-parses its own joined output
providersCall(providers, res) ==
    [arg |-> providers, res |-> res,
     joined |-> join(res, ","),
     again |-> parseStreamingProviders(JsStr(join(res, ",")))]

CallParseStreamingProviders ==
    /\ fn = NoCall /\ phase = "idle" /\ pv.phase = "idle"
    /\ UNCHANGED <<commitVars, pv>>
    /\ fn' = "parseStreamingProviders"
    /\ \E providers \in ProviderInputs :
        call' = providersCall(providers, parseStreamingProviders(providers))

\* the host's offset and its engine's treatment of overflowing ISO days are
\* read from the environment by the call
CallNormalizeDateString ==
    /\ fn = NoCall /\ phase = "idle" /\ pv.phase = "idle"
    /\ UNCHANGED <<commitVars, pv>>
    /\ fn' = "normalizeDateString"
    /\ \E dateStr \in DateInputs, host \in HostOffsets, lenient \in BOOLEAN :
        call' = [arg |-> dateStr, tz |-> host,
                 res |-> normalizeDateString(dateStr, host, lenient)]

CallRawWatchlistRowSchema ==
    /\ fn = NoCall /\ phase = "idle" /\ pv.phase = "idle"
    /\ UNCHANGED <<commitVars, pv>>
    /\ fn' = "rawWatchlistRowSchema"
    /\ \E row \in RawRows :
        call' = [arg |-> row, res |-> rawWatchlistRowSchema(row)]

CallPreviewFromRawRow ==
    /\ fn = NoCall /\ phase = "idle" /\ pv.phase = "idle"
    /\ UNCHANGED <<commitVars, pv>>
    /\ fn' = "previewFromRawRow"
    /\ \E row \in RawRows, host \in HostOffsets, lenient \in BOOLEAN,
       catalog \in CatalogOutcomes, existing \in {Null, Some("clx123456789")},
       skipUnmatched \in BOOLEAN :
        call' = [arg |-> row, tz |-> host,
                 res |-> previewFromRawRow(row, host, lenient, catalog, existing,
                                           skipUnmatched)]

CallReimportExportedEntry ==
    /\ fn = NoCall /\ phase = "idle" /\ pv.phase = "idle"
    /\ UNCHANGED <<commitVars, pv>>
    /\ fn' = "reimportExportedEntry"
    /\ \E entry \in ExportedEntries, host \in HostOffsets :
        call' = [arg |-> entry, tz |-> host, res |-> reimport(entry, host)]

CallBulkImportRequestSchema ==
    /\ fn = NoCall /\ phase = "idle" /\ pv.phase = "idle"
    /\ UNCHANGED <<commitVars, pv>>
    /\ fn' = "bulkImportRequestSchema"
    /\ \E request \in SentRequests :
        call' = [arg |-> request, res |-> bulkImportRequestSchema(request)]

CallNormalizedPreviewItemSchema ==
    /\ fn = NoCall /\ phase = "idle" /\ pv.phase = "idle"
    /\ UNCHANGED <<commitVars, pv>>
    /\ fn' = "normalizedPreviewItemSchema"
    /\ \E item \in SentPreviewItems :
        call' = [arg |-> item, res |-> normalizedPreviewItemSchema(item)]

\* one item is validated and, when accepted, committed on its own
CallStorePreviewItem ==
    /\ fn = NoCall /\ phase = "idle" /\ pv.phase = "idle"
    /\ UNCHANGED <<commitVars, pv>>
    /\ fn' = "storePreviewItem"
    /\ \E item \in StoredItems, entries \in Stores :
        call' = [arg |-> item, accepted |-> normalizedPreviewItemSchema(item),
                 before |-> entries,
                 res |-> IF normalizedPreviewItemSchema(item)
                         THEN commitItem(storeRequest(item), 0, entries, FALSE)
                         ELSE [kind |-> "rejected", sub |-> "none", store |-> entries,
                               error |-> "Validation failed"]]

CallExportResponseSchema ==
    /\ fn = NoCall /\ phase = "idle" /\ pv.phase = "idle"
    /\ UNCHANGED <<commitVars, pv>>
    /\ fn' = "exportResponseSchema"
    /\ \E response \in SentResponses :
        call' = [arg |-> response, res |-> exportResponseSchema(response)]

\* the caller takes the result and is ready for the next call
Return ==
    /\ fn # NoCall
    /\ fn' = NoCall
    /\ call' = NoArgs
    /\ UNCHANGED <<commitVars, pv>>

NoRequest == [items |-> <<>>, resolutions |-> <<>>, skipUnmatched |-> FALSE,
              defaultDuplicateStrategy |-> "skip"]
EmptyStore == [e \in {} |-> ExistingEntry]

\* a validated request arrives; the store is as earlier imports left it
StartCommit ==
    /\ fn = NoCall /\ phase = "idle" /\ pv.phase = "idle"
    /\ \E request \in Requests, entries \in Stores :
        /\ req' = request
        /\ store' = entries
        /\ idx' = 1
        /\ result' = EmptyResult
        /\ kinds' = <<>>
        /\ first' = Null
        /\ phase' = IF Len(request.items) = 0 THEN "done" ELSE "running"
        /\ UNCHANGED <<fn, call, pv>>

\* one item is committed; its store access may fail
CommitItem ==
    /\ phase = "running"
    /\ \E writeFails \in BOOLEAN :
        /\ LET outcome == commitItem(req, idx - 1, store, writeFails) IN
           /\ store' = outcome.store
           /\ result' = countOutcome(result, outcome, idx - 1,
                                     req.items[idx].originalTitle)
           /\ phase' = phaseAfterItem(req, idx - 1, outcome)
           /\ kinds' = Append(kinds, outcome.kind)
        /\ idx' = idx + 1
        /\ UNCHANGED <<fn, call, req, first, pv>>

\* the same request with strategy skip for every duplicate
skipAllDuplicates(request) ==
    [request EXCEPT !.defaultDuplicateStrategy = "skip",
                    !.resolutions = [k \in 1..Len(request.resolutions) |->
                                        [request.resolutions[k] EXCEPT !.strategy = "skip"]]]

\* the committed request is sent a second time, to the store the first run left
CommitAgain ==
    /\ phase = "done" /\ first = Null /\ Len(req.items) > 0
    /\ req' = skipAllDuplicates(req)
    /\ first' = Some([kinds |-> kinds, store |-> store])
    /\ kinds' = <<>>
    /\ idx' = 1
    /\ result' = EmptyResult
    /\ phase' = "running"
    /\ UNCHANGED <<fn, call, store, pv>>

\* the ImportResult has been returned
FinishCommit ==
    /\ phase = "done"
    /\ phase' = "idle"
    /\ req' = NoRequest
    /\ idx' = 1
    /\ result' = EmptyResult
    /\ store' = EmptyStore
    /\ kinds' = <<>>
    /\ first' = Null
    /\ UNCHANGED <<fn, call, pv>>

\* a file of rows is submitted for preview
StartPreviewBatch ==
    /\ fn = NoCall /\ phase = "idle" /\ pv.phase = "idle"
    /\ \E rows \in Batches, skipUnmatched \in BOOLEAN :
        pv' = startBatch(rows, skipUnmatched)
    /\ UNCHANGED <<fn, call, commitVars>>

\* the lookups of one of the rows in flight answer
CompleteLookup ==
    /\ pv.phase = "gathering"
    /\ \E k \in pv.inflight, lookup \in Lookups :
        pv' = completeLookup(pv, k, lookup)
    /\ UNCHANGED <<fn, call, commitVars>>

\* every lookup has answered: the list of previews is put together
GatherPreviews ==
    /\ pv.phase = "gathering" /\ pv.inflight = {}
    /\ pv' = [pv EXCEPT !.phase = "done", !.items = gather(pv.slots, pv.order)]
    /\ UNCHANGED <<fn, call, commitVars>>

\* the previews have been returned
FinishPreviewBatch ==
    /\ pv.phase = "done"
    /\ pv' = NoBatch
    /\ UNCHANGED <<fn, call, commitVars>>

Init ==
    /\ fn = NoCall
    /\ call = NoArgs
    /\ phase = "idle"
    /\ req = NoRequest
    /\ idx = 1
    /\ result = EmptyResult
    /\ store = EmptyStore
    /\ kinds = <<>>
    /\ first = Null
    /\ pv = NoBatch

Next ==
    \/ CallNormalizeWatchStatus
    \/ CallNormalizeRating
    \/ CallParseStreamingProviders
    \/ CallNormalizeDateString
    \/ CallCalculateMatchConfidence
    \/ CallScoreCandidates
    \/ CallRankCandidates
    \/ CallRawWatchlistRowSchema
    \/ CallPreviewFromRawRow
    \/ CallReimportExportedEntry
    \/ CallBulkImportRequestSchema
    \/ CallNormalizedPreviewItemSchema
    \/ CallExportResponseSchema
    \/ CallStorePreviewItem
    \/ Return
    \/ StartCommit
    \/ CommitItem
    \/ CommitAgain
    \/ FinishCommit
    \/ StartPreviewBatch
    \/ CompleteLookup
    \/ GatherPreviews
    \/ FinishPreviewBatch

Spec == Init /\ [][Next]_vars

(***************************************************************************)
(* C6: normalizeWatchStatus is total: every input (null, undefined, "",    *)
(* any string) gives one of not_watched / watching / completed; after      *)
(* lower-casing and trimming every listed synonym gives its canonical      *)
(* value and every other string gives not_watched.                         *)
(***************************************************************************)
CanonicalOf(s) ==
    IF s \in completedVariations THEN "completed"
    ELSE IF s \in watchingVariations THEN "watching"
    ELSE "not_watched"

Clamp(n, lo, hi) == IF n < lo THEN lo ELSE IF n > hi THEN hi ELSE n

\* floor(2 * |x| * 10 / scale), and whether 2 * |x| * 10 / scale is that integer
TwiceRescaledFloor(x, scale) ==
    BigToInt(BigShr(BigDiv(BigMulAdd(x.m, 20, 0), scale), 0 - x.e))
TwiceRescaledWhole(x, scale) ==
    /\ BigMod(BigMulAdd(x.m, 20, 0), scale) = 0
    /\ BigShl(BigShr(BigDiv(BigMulAdd(x.m, 20, 0), scale), 0 - x.e), 0 - x.e)
         = BigDiv(BigMulAdd(x.m, 20, 0), scale)

\* floor(x * 10 / scale + 1/2) in exact arithmetic on the double x
RoundHalfUpExact(x, scale) ==
    IF x.m = <<>> THEN 0
    ELSE IF ~x.neg THEN (TwiceRescaledFloor(x, scale) + 1) \div 2
    ELSE IF TwiceRescaledWhole(x, scale) THEN (1 - TwiceRescaledFloor(x, scale)) \div 2
    ELSE (0 - TwiceRescaledFloor(x, scale)) \div 2

C10_RatingFormula ==
    fn = "normalizeRating" =>
        IF call.arg.t = "num"
        THEN /\ call.res = Some(Clamp(RoundHalfUpExact(toDouble(call.arg), call.scale), 0, 10))
             /\ call.res[1] \in 0..10
        ELSE call.res = Null

(***************************************************************************)
(* C7: parseStreamingProviders is idempotent on its own output: parsing    *)
(* the comma-joined result gives exactly the tokens of the result.         *)
(* As stated this fails (a token may hold a delimiter, or the joined text  *)
(* may be a JSON array); it holds when no token holds a comma, semicolon   *)
(* or pipe and the joined text does not parse as a JSON array.             *)
(***************************************************************************)
Tokens(l) == { l[i] : i \in 1..Len(l) }

C7_IdempotentAsClaimed ==
    fn = "parseStreamingProviders" => Tokens(call.again) = Tokens(call.res)

IsJsonArrayText(s) ==
    LET trimmed == trim(s) IN
    /\ startsWith(trimmed, "[")
    /\ endsWith(trimmed, "]")
    /\ JSONparse(trimmed).ok

DelimiterFree(l) ==
    \A i \in 1..Len(l) : ~includes(l[i], ",") /\ ~includes(l[i], ";") /\ ~includes(l[i], "|")

C7_IdempotentOnPlainTokens ==
    (/\ fn = "parseStreamingProviders"
     /\ DelimiterFree(call.res)
     /\ ~IsJsonArrayText(call.joined))
        => call.again = call.res

\* two or more plain tokens from a list or a delimited string were joined and parsed back
C7_Witness ==
    /\ fn = "parseStreamingProviders"
    /\ Len(call.res) >= 2
    /\ DelimiterFree(call.res)
    /\ ~IsJsonArrayText(call.joined)
    /\ call.arg.t = "list"
    /\ call.again = call.res

(***************************************************************************)
(* C1: whatever mix of skipped items, duplicates (skip / overwrite /       *)
(* merge), new items and failing store writes a request holds, the         *)
(* returned ImportResult has imported + skipped + failed = length(items)   *)
(* (and, while the batch runs, the three counters add up to the number of  *)
(* items already processed).                                               *)
(***************************************************************************)
C1_ResultAccountsForEveryItem ==
    /\ phase = "done" =>
          result.imported + result.skipped + result.failed = Len(req.items)
    /\ phase = "running" =>
          result.imported + result.skipped + result.failed = idx - 1

\* a finished batch of two items that holds a skipped item and a failed one
C1_Witness ==
    /\ phase = "done"
    /\ Len(req.items) = 2
    /\ result.skipped = 1
    /\ result.failed = 1

(***************************************************************************)
(* C2: when the store write for item i fails, item i is counted in failed  *)
(* and {itemIndex: i, title, error} is appended to errors; the records     *)
(* written before stay in the store; the batch goes on with the items      *)
(* after i and ends with a complete ImportResult, every item processed.    *)
(***************************************************************************)
C2_FailureStep ==
    (phase = "running" /\ result'.failed # result.failed) =>
        /\ result'.failed = result.failed + 1
        /\ result'.imported = result.imported /\ result'.skipped = result.skipped
        /\ Len(result'.errors) = Len(result.errors) + 1
        /\ result'.errors[Len(result'.errors)].itemIndex = idx - 1
        /\ result'.errors[Len(result'.errors)].title = req.items[idx].originalTitle
        /\ result'.errors[Len(result'.errors)].error # ""
        /\ store' = store
        /\ idx' = idx + 1
        /\ phase' = IF idx < Len(req.items) THEN "running" ELSE "done"

C2_FailureIsIsolated ==
    /\ [][C2_FailureStep]_vars
    /\ [](phase = "done" =>
             /\ idx = Len(req.items) + 1
             /\ Len(result.errors) = result.failed)

\* the first item failed and the second one was imported all the same
C2_Witness ==
    /\ phase = "done"
    /\ Len(req.items) = 2
    /\ result.failed = 1
    /\ result.errors[1].itemIndex = 0
    /\ result.imported = 1
    /\ "new1" \in DOMAIN store

(***************************************************************************)
(* C3: every row accepted by rawWatchlistRowSchema has a title that is     *)
(* non-empty after trimming and at most 500 characters long; a title of    *)
(* whitespace only is rejected like the empty title.                       *)
(***************************************************************************)
C3_TitleNonEmptyAfterTrim ==
    (fn = "rawWatchlistRowSchema" /\ call.res.ok) =>
        /\ call.res.data.title # ""
        /\ Len(call.res.data.title) <= TitleMax
        /\ trim(call.arg.title.s) # ""

(***************************************************************************)
(* C4: a row whose dateAdded string is not an ISO date (a US or EU date,   *)
(* or garbage) is never rejected or marked shouldSkip for that reason:     *)
(* its preview carries no error on account of the date, and its dateAdded  *)
(* is what normalizeDateString makes of the string, or null.               *)
(***************************************************************************)
IsIsoDateText(str) == ZodDate(str) \/ ZodDatetimeOffset(str)

C4_DateNeverRejectsRow ==
    (/\ fn = "previewFromRawRow"
     /\ call.arg.dateAdded.t = "str"
     /\ ~IsIsoDateText(call.arg.dateAdded.s)
     /\ rawWatchlistRowSchema([call.arg EXCEPT !.dateAdded = JsUndefined]).ok)
        => /\ call.res.error # Some(ValidationError("dateAdded"))
           /\ \/ call.res.dateAdded = Null
              \/ \E lenient \in BOOLEAN :
                    call.res.dateAdded =
                        normalizeDateString(call.arg.dateAdded, call.tz, lenient)

(***************************************************************************)
(* C5: the preview of {title: "Breaking Bad", year: 2008, status:          *)
(* "in progress", rating: 10, streamingProviders: "Netflix"} passes row    *)
(* validation and, the lookups having succeeded, has suggestedStatus       *)
(* watching, rating 10, streamingProviders ["netflix"], shouldSkip false.  *)
(***************************************************************************)
C5_Row == [BreakingBadRow EXCEPT !.streamingProviders = JsStr("Netflix")]

C5_BreakingBadPreview ==
    (fn = "previewFromRawRow" /\ call.arg = C5_Row) =>
        /\ \A path \in {"title", "year", "status", "rating", "notes", "dateAdded",
                        "streamingProviders"} :
              call.res.error # Some(ValidationError(path))
        /\ call.res.suggestedStatus = "watching"
        /\ call.res.rating = Some(10)
        /\ call.res.streamingProviders = <<"netflix">>
        /\ call.res.error = Null => ~call.res.shouldSkip

(***************************************************************************)
(* C8: a slash-separated day/month/year string whose first number is       *)
(* greater than 12 (such as "15/01/2024") is read as an EU date:           *)
(* normalizeDateString returns a timestamp on that calendar date.          *)
(***************************************************************************)
\* the calendar date YYYY-MM-DD an ISO timestamp starts with
CalendarDate(iso) == SubSeq(iso, 1, 10)

IsoDay(y, m, d) == Pad(y, 4) \o "-" \o Pad(m, 2) \o "-" \o Pad(d, 2)

RealDay(y, m, d) == m \in 1..12 /\ d \in 1..DaysInMonth(y, m)

SlashParts(str) == split(trim(str), "/")

C8_SlashDayFirstIsEu ==
    (/\ fn = "normalizeDateString"
     /\ call.arg.t = "str"
     /\ UsDateShape(trim(call.arg.s))
     /\ ToNumber(SlashParts(call.arg.s)[1]) > 12
     /\ RealDay(ToNumber(SlashParts(call.arg.s)[3]), ToNumber(SlashParts(call.arg.s)[2]),
                ToNumber(SlashParts(call.arg.s)[1])))
        => /\ call.res # Null
           /\ CalendarDate(call.res[1]) =
                 IsoDay(ToNumber(SlashParts(call.arg.s)[3]),
                        ToNumber(SlashParts(call.arg.s)[2]),
                        ToNumber(SlashParts(call.arg.s)[1]))

(***************************************************************************)
(* C9: one day written as an ISO date ("2024-01-15"), as a US slash date   *)
(* ("01/15/2024") and as an EU dot date ("15.01.2024") normalises to       *)
(* timestamps on that same calendar date, whatever the host's time-zone    *)
(* offset.                                                                 *)
(***************************************************************************)
DotParts(str) == split(trim(str), ".")

\* the day a date string names, read as its notation says: [ok, y, m, d]
NamedDay(str) ==
    LET t == trim(str) IN
    IF Len(t) = 10 /\ IsoDatePrefix(t)
    THEN [ok |-> TRUE, y |-> ToNumber(SubSeq(t, 1, 4)), m |-> ToNumber(SubSeq(t, 6, 7)),
          d |-> ToNumber(SubSeq(t, 9, 10))]
    ELSE IF UsDateShape(t)
    THEN [ok |-> TRUE, y |-> ToNumber(SlashParts(t)[3]), m |-> ToNumber(SlashParts(t)[1]),
          d |-> ToNumber(SlashParts(t)[2])]
    ELSE IF EuDateShape(t) /\ Len(DotParts(t)) = 3
    THEN [ok |-> TRUE, y |-> ToNumber(DotParts(t)[3]), m |-> ToNumber(DotParts(t)[2]),
          d |-> ToNumber(DotParts(t)[1])]
    ELSE [ok |-> FALSE]

C9_SameCalendarDateOnEveryHost ==
    (/\ fn = "normalizeDateString"
     /\ call.arg.t = "str"
     /\ NamedDay(call.arg.s).ok
     /\ RealDay(NamedDay(call.arg.s).y, NamedDay(call.arg.s).m, NamedDay(call.arg.s).d))
        => /\ call.res # Null
           /\ CalendarDate(call.res[1]) =
                 IsoDay(NamedDay(call.arg.s).y, NamedDay(call.arg.s).m,
                        NamedDay(call.arg.s).d)

(***************************************************************************)
(* C11: calculateMatchConfidence is the score computed in this order:      *)
(* title credit (0.5 for equal normalized titles, else 0.3 times the       *)
(* overlap 2|A n B| / (|A| + |B|) of the two word sets), plus year credit  *)
(* (0.3 equal years, 0.15 one apart, 0.15 original year absent, else 0),   *)
(* plus 0.05 for a poster, plus 0.15 if the sum so far is >= 0.7, capped   *)
(* to [0, 1]; an exact title (ignoring case and punctuation), equal years  *)
(* and a poster give exactly 1.0.  The sums are sums of doubles, and a     *)
(* year that is null, undefined or 0 is an absent year.                    *)
(***************************************************************************)
\* the words of a title: runs of letters and digits, lower-cased, that
\* whitespace separates; any other character is passed over
RECURSIVE TitleWordsFrom(_, _, _, _)
TitleWordsFrom(s, i, word, words) ==
    IF i > Len(s) THEN (IF word = "" THEN words ELSE Append(words, word))
    ELSE IF IsWs(Ch(s, i))
    THEN TitleWordsFrom(s, i + 1, "", IF word = "" THEN words ELSE Append(words, word))
    ELSE IF IsLowerAlnum(Ch(s, i))
    THEN TitleWordsFrom(s, i + 1, word \o Ch(s, i), words)
    ELSE IF IsLowerAlnum(LowerChar(Ch(s, i)))
    THEN TitleWordsFrom(s, i + 1, word \o LowerChar(Ch(s, i)), words)
    ELSE TitleWordsFrom(s, i + 1, word, words)

TitleWords(s) == TitleWordsFrom(s, 1, "", <<>>)
WordsOf(words) == { words[i] : i \in 1..Len(words) }

YearAbsent(y) == y \in {JsNull, JsUndefined, JsNum(0)}

ClaimedHalf      == DoubleRatio(1, 2)
ClaimedThree10   == DoubleRatio(3, 10)
ClaimedFifteen100 == DoubleRatio(15, 100)
ClaimedFive100   == DoubleRatio(5, 100)
ClaimedSeven10   == DoubleRatio(7, 10)
ClaimedOne       == DoubleOfInt(1)
ClaimedZero      == DoubleOfInt(0)

ClaimedOverlap(A, B) == DoubleRatio(2 * Cardinality(A \cap B), Cardinality(A) + Cardinality(B))

ClaimedTitleCredit(candidateWords, originalWords) ==
    IF candidateWords = originalWords THEN ClaimedHalf
    ELSE DoubleMul(ClaimedThree10, ClaimedOverlap(WordsOf(candidateWords), WordsOf(originalWords)))

ClaimedYearCredit(candidateYear, originalYear) ==
    IF YearAbsent(originalYear) THEN ClaimedFifteen100
    ELSE IF YearAbsent(candidateYear) THEN ClaimedZero
    ELSE IF candidateYear = originalYear THEN ClaimedThree10
    ELSE IF candidateYear.q - originalYear.q \in {-4, 4} THEN ClaimedFifteen100
    ELSE ClaimedZero

ClaimedPosterCredit(hasPoster) == IF hasPoster THEN ClaimedFive100 ELSE ClaimedZero

ClaimedWithBonus(sum) ==
    IF DoubleLess(sum, ClaimedSeven10) THEN sum ELSE DoubleAdd(sum, ClaimedFifteen100)

ClaimedCapped(sum) == IF DoubleLess(ClaimedOne, sum) THEN ClaimedOne ELSE sum

ClaimedConfidence(c) ==
    ClaimedCapped(ClaimedWithBonus(
        DoubleAdd(DoubleAdd(ClaimedTitleCredit(TitleWords(c.candidateTitle),
                                               TitleWords(c.originalTitle)),
                            ClaimedYearCredit(c.candidateYear, c.originalYear)),
                  ClaimedPosterCredit(c.hasPoster))))

SameTitle(c) == TitleWords(c.candidateTitle) = TitleWords(c.originalTitle)

C12_Lower == DoubleRatio(65, 100)
C12_Upper == DoubleRatio(85, 100)

C12_MissingYearBelow085 ==
    (/\ fn = "calculateMatchConfidence"
     /\ call.hasPoster
     /\ call.originalYear \in {JsNull, JsUndefined}
     /\ SameTitle(call))
    => /\ DoubleLess(C12_Lower, call.res)
       /\ DoubleLess(call.res, C12_Upper)

(***************************************************************************)
(* C13: candidate "The Matrix" (1999) against original "Matrix" (1999)     *)
(* with a poster, word overlap 2/3, scores strictly greater than 0.7 and   *)
(* strictly less than 1.0.                                                 *)
(* The code returns 0.3 * 2/3 + 0.3 + 0.05 = 0.55, below the 0.7 that      *)
(* earns the bonus.                                                        *)
(***************************************************************************)
C13_PartialTitleScoresHigh ==
    (/\ fn = "calculateMatchConfidence"
     /\ call.candidateTitle = "The Matrix" /\ call.candidateYear = JsNum(4 * 1999)
     /\ call.originalTitle = "Matrix" /\ call.originalYear = JsNum(4 * 1999)
     /\ call.hasPoster)
    => /\ DoubleLess(ClaimedSeven10, call.res)
       /\ DoubleLess(call.res, ClaimedOne)

(***************************************************************************)
(* C14: all other inputs fixed, a candidate with lower title similarity    *)
(* to the original, or with a larger distance between its year and the     *)
(* original year, always gets a strictly lower confidence.                 *)
(* As stated this fails: a year two or more away earns no year credit, so  *)
(* two such candidates score the same.  What holds: lower title            *)
(* similarity gives a strictly lower confidence; a larger year distance    *)
(* never gives a higher one, and gives a strictly lower one when the       *)
(* nearer year is at most one year from the original's.                    *)
(***************************************************************************)
\* the overlap 2|A n B| / (|A| + |B|) as the fraction num / den; 1 for equal titles
OverlapNum(A, B) == IF A = B THEN 1 ELSE 2 * Cardinality(A \cap B)
OverlapDen(A, B) == IF A = B THEN 1 ELSE Cardinality(A) + Cardinality(B)

LessOverlap(A, B, O) ==
    OverlapNum(A, O) * OverlapDen(B, O) < OverlapNum(B, O) * OverlapDen(A, O)

LessSimilar(title, thanTitle, original) ==
    LessOverlap(WordsOf(TitleWords(title)), WordsOf(TitleWords(thanTitle)),
                WordsOf(TitleWords(original)))

YearDistance(year, original) == Abs(year.q - original.q) \div 4

OtherLessSimilar ==
    /\ fn = "scoreCandidates"
    /\ call.otherYear = call.candidateYear
    /\ LessSimilar(call.otherTitle, call.candidateTitle, call.originalTitle)

OtherFurtherInYears ==
    /\ fn = "scoreCandidates"
    /\ call.otherTitle = call.candidateTitle
    /\ ~YearAbsent(call.originalYear)
    /\ ~YearAbsent(call.candidateYear) /\ ~YearAbsent(call.otherYear)
    /\ YearDistance(call.otherYear, call.originalYear)
         > YearDistance(call.candidateYear, call.originalYear)

C14_StrictlyLowerConfidence ==
    OtherLessSimilar \/ OtherFurtherInYears => DoubleLess(call.otherRes, call.res)

C14_NeverHigherConfidence ==
    /\ OtherLessSimilar => DoubleLess(call.otherRes, call.res)
    /\ OtherFurtherInYears =>
        /\ ~DoubleLess(call.res, call.otherRes)
        /\ IF YearDistance(call.candidateYear, call.originalYear) <= 1
           THEN DoubleLess(call.otherRes, call.res)
           ELSE call.otherRes = call.res

\* both candidates are two or more years from the original's year and score the same
C14_Witness ==
    /\ OtherFurtherInYears
    /\ YearDistance(call.candidateYear, call.originalYear) >= 2
    /\ call.otherRes = call.res

(***************************************************************************)
(* C15: export output re-imports unchanged: every entry the export schema  *)
(* accepts is accepted by the row schema without modification, and title,  *)
(* year, status, rating, notes and streamingProviders come out of the row  *)
(* validator and the normalizers equal to the exported values.             *)
(***************************************************************************)
ProviderNames(v) == [i \in 1..Len(v.l) |-> v.l[i].s]

RowUnmodified(exported, row) ==
    /\ row.title = exported.title.s
    /\ row.year = exported.year
    /\ row.status = exported.status.s
    /\ row.rating = exported.rating
    /\ row.notes = exported.notes
    /\ row.streamingProviders = exported.streamingProviders

PreviewEqualsExported(exported, preview) ==
    /\ ~preview.shouldSkip
    /\ preview.originalTitle = exported.title.s
    /\ preview.originalYear = OptNum(exported.year)
    /\ preview.suggestedStatus = exported.status.s
    /\ preview.rating = OptNum(exported.rating)
    /\ preview.notes = OptStr(exported.notes)
    /\ preview.streamingProviders = ProviderNames(exported.streamingProviders)

C15_ExportReimportsUnchanged ==
    (fn = "reimportExportedEntry" /\ call.res # Null) =>
        /\ call.res[1].row.ok
        /\ RowUnmodified(call.res[1].exported, call.res[1].row.data)
        /\ PreviewEqualsExported(call.res[1].exported, call.res[1].preview)

(***************************************************************************)
(* C16: commit is idempotent under skip: when a committed request is       *)
(* committed again with strategy skip for all duplicates, no item the      *)
(* first run imported is imported by the second run (imported = 0 for      *)
(* those titles), and the second run creates no stored record.             *)
(***************************************************************************)
C16_CommitIdempotentUnderSkip ==
    (phase = "done" /\ first # Null) =>
        /\ \A i \in 1..Len(req.items) :
              first[1].kinds[i] = "imported" => kinds[i] # "imported"
        /\ (\A i \in 1..Len(req.items) : first[1].kinds[i] = "imported")
               => result.imported = 0
        /\ DOMAIN store = DOMAIN first[1].store

(***************************************************************************)
(* C17: committing an item flagged hasExistingEntry whose resolution is    *)
(* {strategy: merge, mergeFields: {status: true, notes: append}} stores a  *)
(* record with the incoming suggestedStatus and the existing notes         *)
(* followed by the incoming notes; rating and streamingProviders keep the  *)
(* existing entry's values; the item is counted in imported and in merged. *)
(***************************************************************************)
MergesStatusAndNotes(request, itemIndex) ==
    /\ \E k \in 1..Len(request.resolutions) :
          /\ request.resolutions[k].itemIndex = itemIndex
          /\ \A h \in 1..(k - 1) : request.resolutions[h].itemIndex # itemIndex
          /\ request.resolutions[k].strategy = "merge"
          /\ request.resolutions[k].mergeFields # Null
          /\ request.resolutions[k].mergeFields[1].status
          /\ request.resolutions[k].mergeFields[1].notes = "append"
          /\ request.resolutions[k].mergeFields = Some(mergeFieldsSchema(StatusAndNotes))

NotesFollowedBy(existing, incoming) ==
    IF incoming = Null \/ incoming = Some("") THEN existing
    ELSE IF existing = Null \/ existing = Some("") THEN incoming
    ELSE Some(existing[1] \o "\n" \o incoming[1])

\* the item about to be committed is a duplicate of a stored entry, is merged
\* by {status: true, notes: append}, and its store write goes through
C17_MergeCase ==
    /\ phase = "running"
    /\ ~req.items[idx].shouldSkip
    /\ ~(req.skipUnmatched /\ req.items[idx].matchCandidates = <<>>)
    /\ req.items[idx].hasExistingEntry
    /\ req.items[idx].existingEntryId # Null
    /\ req.items[idx].existingEntryId[1] \in DOMAIN store
    /\ MergesStatusAndNotes(req, idx - 1)

C17_MergeStep ==
    (C17_MergeCase /\ result'.failed = result.failed) =>
        LET id == req.items[idx].existingEntryId[1] IN
        /\ DOMAIN store' = DOMAIN store
        /\ store'[id].status = req.items[idx].suggestedStatus
        /\ store'[id].notes = NotesFollowedBy(store[id].notes, req.items[idx].notes)
        /\ store'[id].rating = store[id].rating
        /\ store'[id].streamingProviders = store[id].streamingProviders
        /\ \A e \in DOMAIN store \ {id} : store'[e] = store[e]
        /\ result'.imported = result.imported + 1
        /\ result'.merged = result.merged + 1
        /\ result'.skipped = result.skipped
        /\ result'.overwritten = result.overwritten

C17_MergeStatusAndNotes == [][C17_MergeStep]_vars

\* a finished one-item batch that merged "again" into the notes "first" and
\* left the rating 7 and the provider hulu of the stored entry
C17_Witness ==
    /\ phase = "done" /\ first = Null
    /\ Len(req.items) = 1
    /\ MergesStatusAndNotes(req, 0)
    /\ result.imported = 1 /\ result.merged = 1
    /\ "clx123456789" \in DOMAIN store
    /\ store["clx123456789"].status = "completed"
    /\ store["clx123456789"].notes = Some("first\nagain")
    /\ store["clx123456789"].rating = Some(7)
    /\ store["clx123456789"].streamingProviders = <<"hulu">>

(***************************************************************************)
(* C18: when the rows of a batch are previewed concurrently, the list of   *)
(* PreviewItems is in input row order for every order in which the         *)
(* lookups complete: item k of the result is the preview of row k.         *)
(***************************************************************************)
\* the preview of a row from the row and the answer its lookups gave
PreviewOfRow(k) ==
    IF pv.answers[k] = Null
    THEN previewFromRawRow(pv.rows[k], 0, FALSE, "none", Null, pv.skipUnmatched)
    ELSE previewRow(pv.rows[k], pv.answers[k][1], pv.skipUnmatched)

C18_PreviewsInRowOrder ==
    pv.phase = "done" =>
        /\ Len(pv.items) = Len(pv.rows)
        /\ \A k \in 1..Len(pv.rows) :
              /\ pv.items[k] = PreviewOfRow(k)
              /\ pv.rows[k].title.t = "str" =>
                    pv.items[k].originalTitle \in {pv.rows[k].title.s, trim(pv.rows[k].title.s)}

\* two rows whose lookups completed in the reverse of the row order
C18_Witness ==
    /\ pv.phase = "done"
    /\ Len(pv.rows) = 2
    /\ pv.order = <<2, 1>>
    /\ pv.items[1].originalTitle # pv.items[2].originalTitle

(***************************************************************************)
(* C19: in the Preview Builder a catalog or store lookup failure for one   *)
(* row turns only that row into a PreviewItem with shouldSkip = true and   *)
(* an error; the previews of the other rows are still produced, and the    *)
(* batch as a whole never fails.                                           *)
(***************************************************************************)
\* the step in which the lookups of row k answer
AnswerStep(k) == pv.phase = "gathering" /\ pv.answers[k] = Null /\ pv'.answers[k] # Null

C19_FailureStep ==
    \A k \in 1..Len(pv.rows) :
        (AnswerStep(k) /\ lookupFailed(pv'.answers[k][1])) =>
            /\ pv'.phase = "gathering"
            /\ pv'.rows = pv.rows
            /\ pv'.slots[k] # Null
            /\ pv'.slots[k][1].shouldSkip
            /\ pv'.slots[k][1].error # Null
            /\ pv'.inflight = pv.inflight \ {k}
            /\ \A j \in 1..Len(pv.rows) \ {k} :
                  /\ pv'.slots[j] = pv.slots[j]
                  /\ pv'.answers[j] = pv.answers[j]

\* the previews of the rows whose lookups did not fail are the ones they
\* get in a batch without any failure
C19_OthersProduced ==
    pv.phase = "done" =>
        /\ Len(pv.items) = Len(pv.rows)
        /\ \A k \in 1..Len(pv.rows) :
              IF pv.answers[k] # Null /\ lookupFailed(pv.answers[k][1])
              THEN pv.items[k].shouldSkip /\ pv.items[k].error # Null
              ELSE /\ pv.items[k].originalTitle = PreviewOfRow(k).originalTitle
                   /\ pv.items[k].shouldSkip = PreviewOfRow(k).shouldSkip
                   /\ pv.items[k].error = PreviewOfRow(k).error
                   /\ pv.answers[k] # Null =>
                         (pv.items[k].shouldSkip =>
                             /\ pv.answers[k][1].catalog = "none"
                             /\ pv.skipUnmatched)

C19_LookupFailureIsolated ==
    /\ [][C19_FailureStep]_vars
    /\ []C19_OthersProduced

\* a finished batch of two valid rows: the lookups of the first failed, the
\* second row has its preview
C19_Witness ==
    /\ pv.phase = "done"
    /\ Len(pv.rows) = 2
    /\ pv.answers[1] # Null /\ pv.answers[1][1].store = "down"
    /\ pv.items[1].shouldSkip /\ pv.items[1].error # Null
    /\ pv.answers[2] # Null /\ ~lookupFailed(pv.answers[2][1])
    /\ ~pv.items[2].shouldSkip /\ pv.items[2].error = Null

(***************************************************************************)
(* C20: every BulkImportRequest that passes request validation has all of  *)
(* its resolutions' itemIndex values inside 0..length(items)-1.            *)
(***************************************************************************)
C20_ResolutionsPointIntoItems ==
    (fn = "bulkImportRequestSchema" /\ call.res.ok) =>
        \A k \in 1..Len(call.res.data.resolutions) :
            call.res.data.resolutions[k].itemIndex \in 0..(Len(call.res.data.items) - 1)

(***************************************************************************)
(* C21: every PreviewItem that passes normalizedPreviewItemSchema with     *)
(* hasExistingEntry = true carries a non-null existingEntryId; an item     *)
(* flagged as a duplicate without an existing entry id is rejected.        *)
(***************************************************************************)
C21_DuplicateCarriesEntryId ==
    (fn = "normalizedPreviewItemSchema" /\ call.arg.hasExistingEntry) =>
        (call.res => call.arg.existingEntryId # Null)

(***************************************************************************)
(* C22: every ExportResponse produced by the Export Formatter or accepted  *)
(* by exportResponseSchema has totalEntries equal to the number of         *)
(* elements of entries.                                                    *)
(***************************************************************************)
C22_TotalEntriesIsLength ==
    (fn = "exportResponseSchema" /\ call.res.ok) =>
        call.res.data.totalEntries = Len(call.res.data.entries)

(***************************************************************************)
(* C23: for a string, parseStreamingProviders returns the result of the    *)
(* first applicable step: the JSON array when the trimmed string starts    *)
(* with "[", ends with "]" and parses as an array; otherwise the split on  *)
(* comma if it holds a comma; otherwise on semicolon; otherwise on pipe;   *)
(* otherwise the whole string as one token. Only one delimiter is used     *)
(* ("a;b,c" gives ["a;b","c"]) and a bracketed string that is not valid    *)
(* JSON is split ("[Netflix, Hulu]" gives ["[netflix","hulu]"]).           *)
(***************************************************************************)
\* the positions of the character d in s, in order
PositionsOf(s, d) == SelectSeq([i \in 1..Len(s) |-> i], LAMBDA i : Ch(s, i) = d)

\* the pieces of s between the occurrences of d
PiecesOf(s, d) ==
    LET at == PositionsOf(s, d)
        from(k) == IF k = 1 THEN 1 ELSE at[k - 1] + 1
        to(k) == IF k = Len(at) + 1 THEN Len(s) ELSE at[k] - 1
    IN  [k \in 1..(Len(at) + 1) |-> SubSeq(s, from(k), to(k))]

\* lower-cased, trimmed, the blank ones left out
NormalizedTokens(pieces) ==
    LET kept == SelectSeq(pieces, LAMBDA piece : trim(piece) # "")
    IN  [k \in 1..Len(kept) |-> toLowerCase(trim(kept[k]))]

HasChar(s, d) == \E i \in 1..Len(s) : Ch(s, i) = d

StringElements(l) ==
    LET strings == SelectSeq(l, LAMBDA v : v.t = "str")
    IN  [k \in 1..Len(strings) |-> strings[k].s]

ClaimedProviders(text) ==
    IF IsJsonArrayText(text) THEN NormalizedTokens(StringElements(JSONparse(trim(text)).val.l))
    ELSE IF HasChar(text, ",") THEN NormalizedTokens(PiecesOf(text, ","))
    ELSE IF HasChar(text, ";") THEN NormalizedTokens(PiecesOf(text, ";"))
    ELSE IF HasChar(text, "|") THEN NormalizedTokens(PiecesOf(text, "|"))
    ELSE NormalizedTokens(<<text>>)

C23_FirstApplicableStep ==
    (fn = "parseStreamingProviders" /\ call.arg.t = "str") =>
        /\ call.res = ClaimedProviders(call.arg.s)
        /\ call.arg.s = "a;b,c" => call.res = <<"a;b", "c">>
        /\ call.arg.s = "[Netflix, Hulu]" => call.res = <<"[netflix", "hulu]">>

\* a string that holds a semicolon and a comma was split on the comma alone
C23_Witness ==
    /\ fn = "parseStreamingProviders"
    /\ call.arg = JsStr("a;b,c")
    /\ call.res = <<"a;b", "c">>

(***************************************************************************)
(* C24: parseStreamingProviders returns an ordered set of normalized       *)
(* tokens: no token occurs more than once in the result, and each token    *)
(* is lowercase, trimmed and non-empty.                                    *)
(***************************************************************************)
C24_NoTokenTwice ==
    fn = "parseStreamingProviders" =>
        /\ \A i, j \in 1..Len(call.res) : i # j => call.res[i] # call.res[j]
        /\ \A i \in 1..Len(call.res) :
              /\ call.res[i] # ""
              /\ trim(call.res[i]) = call.res[i]
              /\ toLowerCase(call.res[i]) = call.res[i]

(***************************************************************************)
(* C25: normalizeDateString never throws and returns null for every input  *)
(* that does not denote a real calendar date, slash- or dot-shaped strings *)
(* whose month is outside 1..12 or whose day does not exist in that month  *)
(* ("31.02.2024", "13/45/2024") included.                                  *)
(***************************************************************************)
ShapedParts(str) == splitClass(trim(str), {".", "/"})

\* a slash- or dot-shaped string that names a real day neither month first
\* nor day first
NoRealDay(str) ==
    /\ EuDateShape(trim(str))
    /\ ~RealDay(ToNumber(ShapedParts(str)[3]), ToNumber(ShapedParts(str)[1]),
                ToNumber(ShapedParts(str)[2]))
    /\ ~RealDay(ToNumber(ShapedParts(str)[3]), ToNumber(ShapedParts(str)[2]),
                ToNumber(ShapedParts(str)[1]))

C25_NoRealDateGivesNull ==
    (fn = "normalizeDateString" /\ call.arg.t = "str") =>
        /\ call.arg.s \in GarbageDates => call.res = Null
        /\ NoRealDay(call.arg.s) => call.res = Null

(***************************************************************************)
(* C26: a duplicate resolved with strategy merge and absent or empty       *)
(* mergeFields (an explicit resolution without mergeFields, or             *)
(* defaultDuplicateStrategy = merge) leaves the stored entry's status,     *)
(* rating, notes and streamingProviders equal to the existing entry's.     *)
(***************************************************************************)
NothingToMerge ==
    [status |-> FALSE, rating |-> FALSE, notes |-> "keep", streamingProviders |-> "keep"]

ResolvedAt(request, itemIndex) ==
    { k \in 1..Len(request.resolutions) : request.resolutions[k].itemIndex = itemIndex }

MergesWithoutFields(request, itemIndex) ==
    IF ResolvedAt(request, itemIndex) = {}
    THEN request.defaultDuplicateStrategy = "merge"
    ELSE \E k \in ResolvedAt(request, itemIndex) :
            /\ \A h \in ResolvedAt(request, itemIndex) : k <= h
            /\ request.resolutions[k].strategy = "merge"
            /\ request.resolutions[k].mergeFields \in {Null, Some(NothingToMerge)}

\* the item about to be committed is a duplicate of a stored entry and is
\* merged without merge fields
C26_MergeCase ==
    /\ phase = "running"
    /\ ~req.items[idx].shouldSkip
    /\ ~(req.skipUnmatched /\ req.items[idx].matchCandidates = <<>>)
    /\ req.items[idx].hasExistingEntry
    /\ req.items[idx].existingEntryId # Null
    /\ req.items[idx].existingEntryId[1] \in DOMAIN store
    /\ MergesWithoutFields(req, idx - 1)

C26_MergeStep ==
    C26_MergeCase =>
        LET id == req.items[idx].existingEntryId[1] IN
        /\ id \in DOMAIN store'
        /\ store'[id].status = store[id].status
        /\ store'[id].rating = store[id].rating
        /\ store'[id].notes = store[id].notes
        /\ store'[id].streamingProviders = store[id].streamingProviders
        /\ result'.failed = result.failed =>
              /\ result'.merged = result.merged + 1
              /\ result'.skipped = result.skipped

C26_MergeWithoutFieldsKeeps == [][C26_MergeStep]_vars

\* a finished one-item batch: the duplicate was merged by a resolution
\* without merge fields and the stored entry is as it was
C26_Witness ==
    /\ phase = "done" /\ first = Null
    /\ Len(req.items) = 1
    /\ Len(req.resolutions) = 1
    /\ req.resolutions[1].strategy = "merge"
    /\ req.resolutions[1].mergeFields = Null
    /\ result.merged = 1
    /\ "clx123456789" \in DOMAIN store
    /\ store["clx123456789"] = ExistingEntry
    /\ req.items[1].suggestedStatus # ExistingEntry.status

(***************************************************************************)
(* C27: with skipUnmatched = true every item with an empty matchCandidates *)
(* list is counted as skipped and causes no store write, even when its     *)
(* shouldSkip flag is false and it has no existing entry; with             *)
(* skipUnmatched = false such an item is not skipped on that account.      *)
(***************************************************************************)
Unmatched(item) == item.matchCandidates = <<>>

C27_UnmatchedStep ==
    (phase = "running" /\ Unmatched(req.items[idx])) =>
        IF req.skipUnmatched
        THEN /\ result'.skipped = result.skipped + 1
             /\ result'.imported = result.imported
             /\ result'.failed = result.failed
             /\ store' = store
        ELSE (~req.items[idx].shouldSkip /\ ~req.items[idx].hasExistingEntry) =>
                /\ result'.skipped = result.skipped
                /\ result'.imported + result'.failed = result.imported + result.failed + 1

C27_SkipUnmatched == [][C27_UnmatchedStep]_vars

\* a finished one-item batch with skipUnmatched: the item has no candidate, is
\* not flagged shouldSkip and has no existing entry; it was skipped, nothing stored
C27_Witness ==
    /\ phase = "done" /\ first = Null
    /\ req.skipUnmatched
    /\ Len(req.items) = 1
    /\ Unmatched(req.items[1])
    /\ ~req.items[1].shouldSkip /\ ~req.items[1].hasExistingEntry
    /\ result.skipped = 1 /\ result.imported = 0 /\ result.failed = 0
    /\ DOMAIN store = {}

(***************************************************************************)
(* C28: the 0.15 bonus can invert a ranking: there are two candidates for  *)
(* the same original title and year such that the one whose title-plus-    *)
(* year credit is strictly lower receives the strictly higher final        *)
(* confidence, because its poster credit lifts its running score to at     *)
(* least 0.7 and triggers the bonus.                                       *)
(*                                                                         *)
(* No such pair exists.  A credit the poster lifts to 0.7 is 0.65 (exact   *)
(* title, year one apart or original year missing); the one higher credit  *)
(* is 0.8 (exact title, same year), and 0.8 always has the bonus itself.   *)
(* C28_BonusNeverInverts is what holds instead: when the candidate with    *)
(* the strictly lower credit has the bonus, the other one has the strictly *)
(* higher final confidence.                                                *)
(***************************************************************************)
\* the poster credit lifted the running score of the pair's candidate over the threshold
LiftedByPoster(pair) ==
    /\ pair.hasPoster
    /\ DoubleLess(pair.credit, BonusThreshold)
    /\ ~DoubleLess(DoubleAdd(pair.credit, PosterCredit), BonusThreshold)

\* the pair's candidate has the bonus
HasBonus(pair) ==
    ~DoubleLess(IF pair.hasPoster THEN DoubleAdd(pair.credit, PosterCredit) ELSE pair.credit,
                BonusThreshold)

InvertedByBonus(pair) ==
    /\ DoubleLess(pair.credit, pair.otherCredit)
    /\ LiftedByPoster(pair)
    /\ DoubleLess(pair.otherRes, pair.res)

\* the claim as stated: among the pairs of candidates that are ranked, such a
\* pair exists
C28_BonusInvertsRanking ==
    fn = "rankCandidates" => \E pair \in RankedPairs : InvertedByBonus(pair)

C28_BonusNeverInverts ==
    (fn = "rankCandidates" /\ DoubleLess(call.credit, call.otherCredit) /\ HasBonus(call)) =>
        DoubleLess(call.res, call.otherRes)

\* exact title, year one apart, with a poster: 0.65 + 0.05 reaches 0.7 and ends
\* at 0.85; the exact title of the same year without a poster ends at 0.95
C28_Witness ==
    /\ fn = "rankCandidates"
    /\ call.candidateTitle = call.originalTitle /\ call.otherTitle = call.originalTitle
    /\ call.originalYear = JsNum(4 * 1999)
    /\ call.candidateYear = JsNum(4 * 2000) /\ call.otherYear = JsNum(4 * 1999)
    /\ call.hasPoster /\ ~call.otherHasPoster
    /\ call.credit = DoubleRatio(65, 100)
    /\ LiftedByPoster(call)
    /\ DoubleLess(call.credit, call.otherCredit)
    /\ DoubleLess(call.res, call.otherRes)

(***************************************************************************)
(* C29: every value calculateMatchConfidence returns lies in [0, 0.70) or  *)
(* in [0.85, 1]; no input gives a score in [0.70, 0.85), because a running *)
(* score that reaches 0.70 always gets the 0.15 bonus before the cap at 1. *)
(***************************************************************************)
GapLow == DoubleRatio(70, 100)
GapHigh == DoubleRatio(85, 100)

InScoreGap(score) == ~DoubleLess(score, GapLow) /\ DoubleLess(score, GapHigh)

C29_NoScoreInGap ==
    fn = "calculateMatchConfidence" =>
        /\ ~DoubleLess(call.res, DoubleOfInt(0))
        /\ ~DoubleLess(DoubleOfInt(1), call.res)
        /\ ~InScoreGap(call.res)

\* exact title, year one apart, with a poster: the running score 0.65 + 0.05
\* reaches the threshold and the result is past 0.85, below 0.95
C29_Witness ==
    /\ fn = "calculateMatchConfidence"
    /\ call.candidateTitle = call.originalTitle
    /\ call.originalYear = JsNum(4 * 1999) /\ call.candidateYear = JsNum(4 * 2000)
    /\ call.hasPoster
    /\ ~DoubleLess(call.res, GapHigh)
    /\ DoubleLess(call.res, DoubleRatio(95, 100))

(***************************************************************************)
(* C30: a stored record created or overwritten from any preview item that  *)
(* normalizedPreviewItemSchema accepts satisfies the field constraints of  *)
(* watchlistEntrySchema: every accepted import rating (0..10) and notes    *)
(* value (up to 2000 characters) is also a valid stored rating and notes   *)
(* value.                                                                  *)
(***************************************************************************)
\* the ids written by the call: the new one, or the duplicate's
WrittenIds ==
    { id \in DOMAIN call.res.store :
        id \notin DOMAIN call.before \/ call.res.store[id] # call.before[id] }

C30_AcceptedItemStoresValidRecord ==
    (fn = "storePreviewItem" /\ call.accepted /\ call.res.kind = "imported") =>
        /\ WrittenIds # {}
        /\ \A id \in WrittenIds : watchlistEntryFields(call.res.store[id])

====
